---- MODULE Spec2Model ----
(***************************************************************************)
(* Model of the cruiser bot: the scheduler of bot/eventloop.py and the     *)
(* decision loop of bot/bot.py (OGameBot).                                  *)
(*                                                                          *)
(* Time is the integer number of seconds since the start of the run.       *)
(* Identifiers (uuid4 hex strings in the code) are naturals; None is 0.    *)
(***************************************************************************)
EXTENDS Integers, Sequences, FiniteSets, TLC

\* ------------------------------------------------------------------ bounds
\* Latest clock value explored by the scheduler model.
SchedMaxTime == 2
\* Number of scheduler handles issued in one run of the scheduler model.
MaxIds == 2
\* Number of entries pushed for the same instant in the tie model.
MaxTies == 4
\* Constructor arguments of the bot, in seconds: the periodic wake sleeps
\* SleepMin..SleepMax, a distant attack is acted on MinLead..MaxLead before it
\* arrives (MaxLead exceeds the 10 s of the last-moment rule).
SleepMin == 15
SleepMax == 16
MinLead == 12
MaxLead == 14
\* Latest clock value and largest error count explored by the retry model.
RetryMaxTime == 125
MaxExc == 6
\* Latest clock value explored by the lifecycle model.
LifeMaxTime == 32
\* Arrival of the first attack and latest clock value explored by the defence model.
AttackTime == 40
DefMaxTime == 32
FullMaxTime == 16
\* Largest amount of a resource and largest free capacity get_cargo is called
\* with; MaxAmount is also the latest time of a ranking.
MaxAmount == 2
MaxCargo == 7

\* ------------------------------------------------------------------ state
VARIABLES
    event_q,      \* Scheduler._event_q: the heap array (1-based here)
    clock,        \* time.time()
    pc,           \* position of the run loop / of the handler it is executing
    cur,          \* main_loop's local `event`
    issued,       \* handles returned by push / pushabs to producers so far
    cancelled,    \* handles for which a producer's cancel(handle) has returned
    cfg,          \* OGameBot constructor arguments (self.sleep_min, ...)
    periodic_wakeup_id,        \* OGameBot._periodic_wakeup_id
    exc_count,                 \* OGameBot._exc_count
    last_scheduled_fs,         \* OGameBot._last_scheduled_fs: <<scheduled_id, wakeup_id>> or None
    last_seen_hostile_events,  \* OGameBot._last_seen_hostile_events, in dict order
    expeditions,               \* OGameBot._expeditions, in dict order
    saved_fleets,              \* OGameBot._saved_fleets, in dict order
    rm,           \* the GameResourceManager of the wake: its four cached fields
    loc,          \* local variables of the handler that is running
    notes,        \* notifications sent to the listeners by the running handler
    calls,        \* remote calls and cache hits of the running handler, in order
    result,       \* how the last handle_work call ended
    prev_events   \* history: the event list the last defensive pass read, and
                  \* whether the pass before it had read the same list

schedVars == <<event_q, clock, pc, cur, issued, cancelled>>
botVars == <<cfg, periodic_wakeup_id, exc_count, last_scheduled_fs, last_seen_hostile_events,
             expeditions, saved_fleets>>
passVars == <<rm, loc, notes, calls, result, prev_events>>
vars == <<event_q, clock, pc, cur, issued, cancelled,
          cfg, periodic_wakeup_id, exc_count, last_scheduled_fs, last_seen_hostile_events,
          expeditions, saved_fleets, rm, loc, notes, calls, result, prev_events>>

None == <<>>

NoId == 0
NoPeriod == None
NoEvent == [id |-> NoId, time |-> 0, priority |-> 0, data |-> [type |-> "None"], period |-> NoPeriod]

\* Event(id, time, priority, data, period)
Event(id, time, priority, data, period) ==
    [id |-> id, time |-> time, priority |-> priority, data |-> data, period |-> period]

\* ------------------------------------------------------------------ Event ordering
\* Event.__lt__: (s.time, s.priority) < (o.time, o.priority)
EventLt_NoTime(s, o) == s.priority < o.priority
EventLt(s, o) ==
    \/ s.time < o.time
    \/ (s.time = o.time /\ s.priority < o.priority)

\* ------------------------------------------------------------------ heapq
\* Positions are those of the Python list (0-based); heap[p + 1] is list[p].
RECURSIVE SiftDown(_, _, _, _)
\* heapq._siftdown(heap, startpos, pos) with newitem = the item being placed
SiftDown(heap, startpos, pos, newitem) ==
    IF pos > startpos
    THEN LET parentpos == (pos - 1) \div 2
             parent == heap[parentpos + 1]
         IN IF EventLt(newitem, parent)
            THEN SiftDown([heap EXCEPT ![pos + 1] = parent], startpos, parentpos, newitem)
            ELSE [heap EXCEPT ![pos + 1] = newitem]
    ELSE [heap EXCEPT ![pos + 1] = newitem]

RECURSIVE SiftUpLoop(_, _, _, _)
\* the while loop of heapq._siftup: bubble the smaller child up until a leaf
SiftUpLoop(heap, startpos, pos, newitem) ==
    LET endpos == Len(heap)
        childpos == 2 * pos + 1
    IN IF childpos < endpos
       THEN LET rightpos == childpos + 1
                c == IF rightpos < endpos /\ ~EventLt(heap[childpos + 1], heap[rightpos + 1])
                     THEN rightpos ELSE childpos
            IN SiftUpLoop([heap EXCEPT ![pos + 1] = heap[c + 1]], startpos, c, newitem)
       ELSE SiftDown([heap EXCEPT ![pos + 1] = newitem], startpos, pos, newitem)

\* heapq._siftup(heap, pos)
SiftUp(heap, pos) == SiftUpLoop(heap, pos, pos, heap[pos + 1])

\* heapq.heappop(heap): the heap that is left
HeapPopRest(heap) ==
    LET lastelt == heap[Len(heap)]
        rest == SubSeq(heap, 1, Len(heap) - 1)
    IN IF rest = <<>> THEN rest
       ELSE SiftUp([rest EXCEPT ![1] = lastelt], 0)

RECURSIVE HeapifyFrom(_, _)
\* for i in reversed(range(n // 2)): _siftup(x, i)
HeapifyFrom(heap, i) ==
    IF i < 0 THEN heap ELSE HeapifyFrom(SiftUp(heap, i), i - 1)

\* heapq.heapify(x)
Heapify(heap) == HeapifyFrom(heap, (Len(heap) \div 2) - 1)

RECURSIVE FilterOut(_, _)
\* [e for e in self._event_q if e.id != event_id]
FilterOut(q, event_id) ==
    IF q = <<>> THEN <<>>
    ELSE IF Head(q).id # event_id
         THEN <<Head(q)>> \o FilterOut(Tail(q), event_id)
         ELSE FilterOut(Tail(q), event_id)

\* ------------------------------------------------------------------ Scheduler
QueuedIds == {event_q[i].id : i \in DOMAIN event_q}

\* uuid.uuid4().hex: an identifier nobody holds
WakeIds(q) == {q[i].data.id : i \in {j \in DOMAIN q : q[j].data.type = "WakeUp"}}
UsedIds ==
    QueuedIds \cup issued \cup cancelled \cup {cur.id, NoId, periodic_wakeup_id}
    \cup (IF last_scheduled_fs = None THEN {} ELSE {last_scheduled_fs[1], last_scheduled_fs[2]})
    \cup WakeIds(event_q) \cup WakeIds(<<cur>>)
FreshId == CHOOSE n \in 1..(Cardinality(UsedIds) + 1) : n \notin UsedIds

\* Scheduler._push(event)
SchedulerPush(q, event) ==
    LET h == Append(q, event)
    IN SiftDown(h, 0, Len(h) - 1, event)

\* Scheduler.cancel(event_id): the queue afterwards
SchedulerCancel_NoFilter(q, event_id) == Heapify(q)
SchedulerCancel(q, event_id) == Heapify(FilterOut(q, event_id))

\* Scheduler._pop(): is there an overdue event at the head?
PopReady_NoTimeCheck(q, now) == q # <<>>
PopReady(q, now) == q # <<>> /\ q[1].time <= now

\* ------------------------------------------------------------------ clock
SchedTick ==
    /\ clock < SchedMaxTime
    /\ clock' = clock + 1
    /\ UNCHANGED <<event_q, pc, cur, issued, cancelled, botVars, passVars>>

\* ------------------------------------------------------------------ producers
\* Scheduler.pushabs(abstime, priority, data, period) called by a producer
PushAbs(abstime, priority, data, period) ==
    /\ FreshId <= MaxIds
    /\ LET event_id == FreshId
       IN /\ event_q' = SchedulerPush(event_q, Event(event_id, abstime, priority, data, period))
          /\ issued' = issued \cup {event_id}
    /\ UNCHANGED <<clock, pc, cur, cancelled, botVars, passVars>>

\* a constant period becomes a function returning it; 0 (falsy) stays no period
ConstPeriod(p) == IF p = 0 THEN NoPeriod ELSE <<p, p>>

ProducerPushAbs ==
    \E abstime \in 0..SchedMaxTime, priority \in {0, 1}, p \in {0, 1} :
        PushAbs(abstime, priority, [type |-> "Job"], ConstPeriod(p))

\* Scheduler.push(delay, ...): abstime = time.time() + delay
ProducerPush ==
    \E delay \in 0..1, priority \in {0, 1}, p \in {0, 1} :
        PushAbs(clock + delay, priority, [type |-> "Job"], ConstPeriod(p))

\* Scheduler.cancel(event_id) called by a producer thread, at any point of the
\* run loop (the lock is only held inside _pop, _push and cancel)
ProducerCancel ==
    \E event_id \in issued :
        /\ event_q' = SchedulerCancel(event_q, event_id)
        /\ cancelled' = cancelled \cup {event_id}
        /\ UNCHANGED <<clock, pc, cur, issued, botVars, passVars>>

\* ------------------------------------------------------------------ main_loop
\* event = self._pop(); if event: ...
LoopPop ==
    /\ pc = "loop"
    /\ PopReady(event_q, clock)
    /\ cur' = event_q[1]
    /\ event_q' = HeapPopRest(event_q)
    /\ pc' = IF event_q[1].period # NoPeriod THEN "reinsert" ELSE "consume"
    /\ UNCHANGED <<clock, issued, cancelled, botVars, passVars>>

LoopReinsert_KeepTime ==
    /\ pc = "reinsert"
    /\ cur' = cur
    /\ event_q' = SchedulerPush(event_q, cur)
    /\ pc' = "consume"
    /\ UNCHANGED <<clock, issued, cancelled, botVars, passVars>>

\* if event.period: event.time = time.time() + event.period(); self._push(event)
LoopReinsert ==
    /\ pc = "reinsert"
    /\ \E d \in cur.period[1]..cur.period[2] :
          LET event == [cur EXCEPT !.time = clock + d]
          IN /\ cur' = event
             /\ event_q' = SchedulerPush(event_q, event)
    /\ pc' = "consume"
    /\ UNCHANGED <<clock, issued, cancelled, botVars, passVars>>

\* consume_event(event.data) with an opaque consumer
LoopConsumeJob ==
    /\ pc = "consume"
    /\ cur.data.type = "Job"
    /\ pc' = "loop"
    /\ cur' = NoEvent
    /\ UNCHANGED <<event_q, clock, issued, cancelled, botVars, passVars>>

\* ------------------------------------------------------------------ scheduler model
\* Scheduler.__init__ and the run loop before its first iteration
InitScheduler ==
    /\ event_q = <<>>
    /\ clock = 0
    /\ pc = "loop"
    /\ cur = NoEvent
    /\ issued = {}
    /\ cancelled = {}

\* no bot is attached to the scheduler
InitSched ==
    /\ InitScheduler
    /\ cfg = None
    /\ periodic_wakeup_id = NoId
    /\ exc_count = 0
    /\ last_scheduled_fs = None
    /\ last_seen_hostile_events = <<>>
    /\ expeditions = <<>>
    /\ saved_fleets = <<>>
    /\ rm = None
    /\ loc = None
    /\ notes = <<>>
    /\ calls = <<>>
    /\ result = "none"
    /\ prev_events = None

NextSched ==
    \/ SchedTick
    \/ ProducerPushAbs
    \/ ProducerPush
    \/ ProducerCancel
    \/ LoopPop
    \/ LoopReinsert
    \/ LoopConsumeJob

SpecSched == InitSched /\ [][NextSched]_vars

\* ------------------------------------------------------------------ tie model
\* Scheduler.push(0, priority, data) by a producer that pushes one entry after
\* the other for the same instant, as start_bot.py does with the expeditions
ProducerPushNow ==
    /\ FreshId <= MaxTies
    /\ \E priority \in {0, 1} :
          event_q' = SchedulerPush(event_q, Event(FreshId, clock + 0, priority,
                                                  [type |-> "Job"], NoPeriod))
    /\ issued' = issued \cup {FreshId}
    /\ UNCHANGED <<clock, pc, cur, cancelled, botVars, passVars>>

\* the run loop and a producer of one-shot entries that are all due at once
NextTies ==
    \/ ProducerPushNow
    \/ LoopPop
    \/ LoopConsumeJob

SpecTies == InitSched /\ [][NextTies]_vars

\* ------------------------------------------------------------------ bot: data
\* the player's bodies, by coordinates (Overview.planets)
Planets == {1, 2}
\* coordinates of a body that is not the player's
Elsewhere == 9

\* OGameBot._retry_event_id = uuid4(): distinct from every other identifier
retry_event_id == -1
\* OGameBot._exc_retry_delays
exc_retry_delays == <<5, 10, 15, 30, 60>>

\* WakeUp(id)
WakeUp(id) == [type |-> "WakeUp", id |-> id]

Min(S) == CHOOSE x \in S : \A y \in S : x <= y
Max(S) == CHOOSE x \in S : \A y \in S : x >= y

RECURSIVE KeyLt(_, _)
\* Python's < on tuples of numbers (False < True as 0 < 1)
KeyLt(a, b) ==
    IF a = <<>> \/ b = <<>> THEN a = <<>> /\ b # <<>>
    ELSE IF Head(a) # Head(b) THEN Head(a) < Head(b) ELSE KeyLt(Tail(a), Tail(b))

RECURSIVE InsertByKey(_, _, _, _)
\* insert e (key k) into the sorted s (keys ks) after the elements not greater
InsertByKey(s, ks, e, k) ==
    IF s = <<>> THEN [seq |-> <<e>>, keys |-> <<k>>]
    ELSE IF KeyLt(k, Head(ks))
         THEN [seq |-> <<e>> \o s, keys |-> <<k>> \o ks]
         ELSE LET r == InsertByKey(Tail(s), Tail(ks), e, k)
              IN [seq |-> <<Head(s)>> \o r.seq, keys |-> <<Head(ks)>> \o r.keys]

RECURSIVE SortedByKeys(_, _)
\* sorted(s, key=...) with ks[i] the key of s[i]: a stable sort
SortedByKeys(s, ks) ==
    IF s = <<>> THEN [seq |-> <<>>, keys |-> <<>>]
    ELSE LET n == Len(s)
             front == SortedByKeys(SubSeq(s, 1, n - 1), SubSeq(ks, 1, n - 1))
         IN InsertByKey(front.seq, front.keys, s[n], ks[n])

\* a dict with zero-valued entries removed
remove_empty_values(dictionary) ==
    [k \in {j \in DOMAIN dictionary : dictionary[j] # 0} |-> dictionary[k]]

\* find_fleets' keyword arguments that were not given
NoCriteria ==
    [origin |-> {}, dest |-> {}, mission |-> {}, ships |-> None, cargo |-> None,
     arrives_before |-> 0, arrives_after |-> 0, departs_before |-> 0, departs_after |-> 0,
     is_return_flight |-> "any"]

\* the filter of find_fleets for one fleet; a criterion that is None, empty or 0 is
\* falsy and filters nothing
\* (FleetMatches_NoDeparture: the departure time is not looked at)
FleetMatches_NoDeparture(fleet, q) ==
    /\ (q.origin = {} \/ fleet.origin \in q.origin)
    /\ (q.dest = {} \/ fleet.dest \in q.dest)
    /\ (q.mission = {} \/ fleet.mission \in q.mission)
    /\ (DOMAIN q.ships = {} \/ remove_empty_values(fleet.ships) = remove_empty_values(q.ships))
    /\ (DOMAIN q.cargo = {} \/ remove_empty_values(fleet.cargo) = remove_empty_values(q.cargo))
    /\ (q.arrives_before = 0 \/ fleet.arrival_time < q.arrives_before)
    /\ (q.arrives_after = 0 \/ fleet.arrival_time > q.arrives_after)
    /\ (q.is_return_flight = "any" \/ fleet.return_flight = (q.is_return_flight = "yes"))

FleetMatches(fleet, q) ==
    /\ (q.origin = {} \/ fleet.origin \in q.origin)
    /\ (q.dest = {} \/ fleet.dest \in q.dest)
    /\ (q.mission = {} \/ fleet.mission \in q.mission)
    /\ (DOMAIN q.ships = {} \/ remove_empty_values(fleet.ships) = remove_empty_values(q.ships))
    /\ (DOMAIN q.cargo = {} \/ remove_empty_values(fleet.cargo) = remove_empty_values(q.cargo))
    /\ (q.arrives_before = 0 \/ fleet.arrival_time < q.arrives_before)
    /\ (q.arrives_after = 0 \/ fleet.arrival_time > q.arrives_after)
    /\ (q.departs_before = 0 \/ fleet.departure_time < q.departs_before)
    /\ (q.departs_after = 0 \/ fleet.departure_time > q.departs_after)
    /\ (q.is_return_flight = "any" \/ fleet.return_flight = (q.is_return_flight = "yes"))

\* find_fleets(fleets, ...) without id
find_fleets(fleets, q) == SelectSeq(fleets, LAMBDA fleet : FleetMatches(fleet, q))

\* find_fleets(fleets, id=id): the first fleet with that id, or None
find_fleet_by_id(fleets, id) ==
    LET found == SelectSeq(fleets, LAMBDA fleet : fleet.id = id)
    IN IF found = <<>> THEN None ELSE found[1]

\* only_probes(e): ship information is there and probes are the only ship type
only_probes(e) == e.ships = "probes"

\* find_hostile_events(events, planets)
find_hostile_events(events, planets) ==
    SelectSeq(find_fleets(events,
                  [NoCriteria EXCEPT !.dest = planets,
                                     !.mission = {"attack", "acs_attack", "destroy", "espionage"}]),
              LAMBDA e : ~only_probes(e))

RECURSIVE DictById(_)
\* {event.id: event for event in events}.values(): a later event with the same id
\* replaces the earlier one in its place
DictById(events) ==
    IF events = <<>> THEN <<>>
    ELSE LET n == Len(events)
             front == DictById(SubSeq(events, 1, n - 1))
             e == events[n]
         IN IF \E i \in DOMAIN front : front[i].id = e.id
            THEN [i \in DOMAIN front |-> IF front[i].id = e.id THEN e ELSE front[i]]
            ELSE Append(front, e)

RECURSIVE get_earliest_fleet_per_destination(_)
\* for each destination the fleet that arrives first, in order of first appearance
get_earliest_fleet_per_destination(fleets) ==
    IF fleets = <<>> THEN <<>>
    ELSE LET n == Len(fleets)
             front == get_earliest_fleet_per_destination(SubSeq(fleets, 1, n - 1))
             fleet == fleets[n]
         IN IF \E i \in DOMAIN front : front[i].dest = fleet.dest
            THEN [i \in DOMAIN front |->
                    IF front[i].dest = fleet.dest /\ fleet.arrival_time < front[i].arrival_time
                    THEN fleet ELSE front[i]]
            ELSE Append(front, fleet)

\* get_earliest_fleet(fleets): min(..., default=None), the first of the minimal ones
get_earliest_fleet(fleets) ==
    IF fleets = <<>> THEN None
    ELSE fleets[Min({i \in DOMAIN fleets :
                        \A j \in DOMAIN fleets : fleets[i].arrival_time <= fleets[j].arrival_time})]

\* get_latest_fleet(fleets): max(..., default=None), the first of the maximal ones
get_latest_fleet(fleets) ==
    IF fleets = <<>> THEN None
    ELSE fleets[Min({i \in DOMAIN fleets :
                        \A j \in DOMAIN fleets : fleets[i].arrival_time >= fleets[j].arrival_time})]

\* match_planet(coords, planets): the planet at the coordinates, or None (0)
match_planet(coords, planets) == IF coords \in planets THEN coords ELSE 0

\* ------------------------------------------------------------------ notifications
NotifyWakeUp == [type |-> "NotifyWakeUp"]
NotifyStarted == [type |-> "NotifyStarted"]
NotifyStopped == [type |-> "NotifyStopped"]
NotifyPlanetsSafe == [type |-> "NotifyPlanetsSafe"]
NotifyHostileEvent(planet, hostile_arrival, previous_hostile_arrival) ==
    [type |-> "NotifyHostileEvent", planet |-> planet, hostile_arrival |-> hostile_arrival,
     previous_hostile_arrival |-> previous_hostile_arrival]
NotifyHostileEventRecalled(planet, hostile_arrival) ==
    [type |-> "NotifyHostileEventRecalled", planet |-> planet, hostile_arrival |-> hostile_arrival]

\* ------------------------------------------------------------------ GameResourceManager
\* GameResourceManager.__init__
NewManager == [overview |-> None, events |-> None, movement |-> None, research |-> None]
\* a cached answer of the remote
Cached(v) == [value |-> v]
\* the manager of a wake that has ended: its values belong to that wake
Stale == [stale |-> TRUE]

\* `self._x is None or invalidate_cache`: the getter goes to the remote
CacheMiss_Always(cached, invalidate_cache) == TRUE
CacheMiss(cached, invalidate_cache) == cached = None \/ invalidate_cache

\* get_movement: `self._movement is None or invalidate_cache or return_fleet is not None`
MovementMiss_IgnoreInvalidate(cached, return_fleet, invalidate_cache) ==
    cached = None \/ return_fleet # NoId
MovementMiss(cached, return_fleet, invalidate_cache) ==
    cached = None \/ invalidate_cache \/ return_fleet # NoId

\* one entry of the trace of a wake: a remote call, or a getter answered from the
\* cache; ok: the call did not raise, success: the value send_fleet returned
Call(op, remote, arg, token, forced) ==
    [op |-> op, remote |-> remote, arg |-> arg, token |-> token, forced |-> forced,
     ok |-> TRUE, success |-> TRUE]

\* ------------------------------------------------------------------ bot: lifecycle
\* OGameBot.__init__
InitBot(config) ==
    /\ cfg = config
    /\ periodic_wakeup_id = NoId
    /\ exc_count = 0
    /\ last_scheduled_fs = None
    /\ last_seen_hostile_events = <<>>
    /\ expeditions = <<>>
    /\ saved_fleets = <<>>
    /\ rm = None
    /\ loc = None
    /\ notes = <<>>
    /\ calls = <<>>
    /\ result = "none"
    /\ prev_events = [read |-> FALSE, events |-> <<>>, repeated |-> FALSE]

\* OGameBot.started
started == periodic_wakeup_id # NoId

\* OGameBot.start(), called between two handlers
Start_Unguarded ==
    /\ pc = "loop"
    /\ event_q' = SchedulerPush(event_q, Event(FreshId, clock + 0, 0, WakeUp(NoId),
                                               <<cfg.sleep_min, cfg.sleep_max>>))
    /\ periodic_wakeup_id' = FreshId
    /\ notes' = <<NotifyStarted>>
    /\ pc' = "return"
    /\ result' = "started"
    /\ UNCHANGED <<clock, cur, issued, cancelled, cfg, exc_count, last_scheduled_fs,
                   last_seen_hostile_events, expeditions, saved_fleets, rm, loc, calls,
                   prev_events>>

Start ==
    /\ pc = "loop"
    /\ IF periodic_wakeup_id = NoId
       THEN LET event_id == FreshId
            IN /\ event_q' = SchedulerPush(event_q,
                                Event(event_id, clock + 0, 0, WakeUp(NoId),
                                      <<cfg.sleep_min, cfg.sleep_max>>))
               /\ periodic_wakeup_id' = event_id
               /\ notes' = <<NotifyStarted>>
       ELSE UNCHANGED <<event_q, periodic_wakeup_id, notes>>
    /\ pc' = "return"
    /\ result' = "started"
    /\ UNCHANGED <<clock, cur, issued, cancelled, cfg, exc_count, last_scheduled_fs,
                   last_seen_hostile_events, expeditions, saved_fleets, rm, loc, calls,
                   prev_events>>

\* OGameBot.stop(), called between two handlers
Stop ==
    /\ pc = "loop"
    /\ event_q' = SchedulerCancel(event_q, periodic_wakeup_id)
    /\ periodic_wakeup_id' = NoId
    /\ notes' = <<NotifyStopped>>
    /\ pc' = "return"
    /\ result' = "stopped"
    /\ UNCHANGED <<clock, cur, issued, cancelled, cfg, exc_count, last_scheduled_fs,
                   last_seen_hostile_events, expeditions, saved_fleets, rm, loc, calls,
                   prev_events>>

\* control is back in the run loop (or in the caller of start / stop): the locals
\* of the call are gone, its resource manager is that of a wake that has ended
Return_RaiseEndsLoop ==
    /\ pc = "return"
    /\ pc' = IF result = "raised" THEN "terminated" ELSE "loop"
    /\ loc' = None
    /\ notes' = <<>>
    /\ calls' = <<>>
    /\ result' = "none"
    /\ rm' = IF rm = None THEN None ELSE [k \in DOMAIN rm |-> Stale]
    /\ cur' = NoEvent
    /\ prev_events' = [prev_events EXCEPT !.repeated = FALSE]
    /\ UNCHANGED <<event_q, clock, issued, cancelled, botVars>>

Return ==
    /\ pc = "return"
    /\ pc' = "loop"
    /\ loc' = None
    /\ notes' = <<>>
    /\ calls' = <<>>
    /\ result' = "none"
    /\ rm' = IF rm = None THEN None ELSE [k \in DOMAIN rm |-> Stale]
    /\ cur' = NoEvent
    /\ prev_events' = [prev_events EXCEPT !.repeated = FALSE]
    /\ UNCHANGED <<event_q, clock, issued, cancelled, botVars>>

\* ------------------------------------------------------------------ bot: handle_work
HandleWorkNotStarted_Accepts ==
    /\ pc = "consume"
    /\ cur.data.type \in {"WakeUp", "SendExpedition", "CancelExpedition"}
    /\ ~started
    /\ expeditions' = IF cur.data.type = "SendExpedition"
                      THEN Append(expeditions, [data |-> cur.data, cancelled |-> <<>>, fleet_id |-> 0])
                      ELSE expeditions
    /\ pc' = "return"
    /\ result' = "rejected"
    /\ UNCHANGED <<event_q, clock, cur, issued, cancelled, cfg, periodic_wakeup_id, exc_count,
                   last_scheduled_fs, last_seen_hostile_events, saved_fleets, rm, loc, notes,
                   calls, prev_events>>

\* handle_work: `if not self.started: raise ValueError`
HandleWorkNotStarted ==
    /\ pc = "consume"
    /\ cur.data.type \in {"WakeUp", "SendExpedition", "CancelExpedition"}
    /\ ~started
    /\ pc' = "return"
    /\ result' = "rejected"
    /\ UNCHANGED <<event_q, clock, cur, issued, cancelled, botVars, rm, loc, notes, calls,
                   prev_events>>

\* OGameBot._retrying_after_exception
retrying_after_exception == exc_count > 0

\* _do_work: the wake is ignored while retrying unless it is the retry event
IgnoredWhileRetrying_Never(event_id) == FALSE
IgnoredWhileRetrying(event_id) ==
    retrying_after_exception /\ event_id # retry_event_id

\* _do_work returns at once
DoWorkIgnore ==
    /\ pc = "consume"
    /\ cur.data.type = "WakeUp"
    /\ started
    /\ IgnoredWhileRetrying(cur.data.id)
    /\ pc' = "return"
    /\ result' = "dropped"
    /\ UNCHANGED <<event_q, clock, cur, issued, cancelled, botVars, rm, loc, notes, calls,
                   prev_events>>

\* the locals of _do_work and of the functions it calls
NewLocals(wakeup) ==
    [wakeup |-> wakeup, current_time |-> 0, hostile_events |-> <<>>, imminent |-> <<>>,
     i |-> 0, planet |-> 0, hostile_arrival |-> 0, deuterium |-> 0, resources |-> None,
     fleet_dispatch |-> None, escape_flight |-> None, cargo |-> None, movement |-> None,
     targets |-> <<>>, sf |-> <<>>, finished |-> <<>>, todo |-> <<>>, expedition |-> 0,
     dests |-> <<>>, destination |-> 0, debris |-> None, origins |-> <<>>,
     required_pathfinders |-> 0, pathfinder_fleet |-> 0]

\* _do_work: notify WakeUp, build the resource manager, go on to get_overview
DoWorkBegin ==
    /\ pc = "consume"
    /\ cur.data.type = "WakeUp"
    /\ started
    /\ ~IgnoredWhileRetrying(cur.data.id)
    /\ notes' = <<NotifyWakeUp>>
    /\ rm' = NewManager
    /\ loc' = NewLocals(cur.data)
    /\ calls' = <<>>
    /\ pc' = "overview"
    /\ UNCHANGED <<event_q, clock, cur, issued, cancelled, botVars, result, prev_events>>

\* the delay of the retry wake after the failure that finds _exc_count = count
RetryDelay_NoClamp(count) == exc_retry_delays[(count % Len(exc_retry_delays)) + 1]
RetryDelay(count) ==
    LET retry_delay_index == Min({count, Len(exc_retry_delays) - 1})
    IN exc_retry_delays[retry_delay_index + 1]

Except_DropWake ==
    /\ event_q' = SchedulerPush(IF last_scheduled_fs # None
                                THEN SchedulerCancel(event_q, last_scheduled_fs[1])
                                ELSE event_q,
                     Event(FreshId, clock + RetryDelay(exc_count), 0, WakeUp(retry_event_id),
                           NoPeriod))
    /\ exc_count' = exc_count + 1
    /\ pc' = "return"
    /\ result' = "raised"

\* _do_work's `except Exception`: push the retry wake, count the failure, re-raise
Except ==
    /\ event_q' = SchedulerPush(event_q,
                     Event(FreshId, clock + RetryDelay(exc_count), 0, WakeUp(retry_event_id),
                           NoPeriod))
    /\ exc_count' = exc_count + 1
    /\ pc' = "return"
    /\ result' = "raised"

\* ------------------------------------------------------------------ bot: control flow
\* `if self._expeditions: self._handle_expeditions(resource_manager)`; without
\* expeditions the try block of _do_work has run to its end
EnterExpeditions(l, exps) ==
    [pc |-> IF exps # <<>> THEN "ex_movement" ELSE "return", loc |-> l]

\* move on to position next.pc with locals next.loc
Goto(next) ==
    /\ pc' = next.pc
    /\ loc' = next.loc
    /\ exc_count' = IF next.pc = "return" THEN 0 ELSE exc_count
    /\ result' = IF next.pc = "return" THEN "ok" ELSE result

\* the hostile events the save and recall loops do not skip, with the loop index
SaveEvent(l) == l.imminent[l.i]

\* the saved-fleet loop goes on with the first entry from position j on whose
\* origin is not under attack; after the last entry the defensive pass is over
SavedLoopFrom_Skip(l, j, exps) == EnterExpeditions([l EXCEPT !.i = 0], exps)

SavedLoopFrom(l, j, exps) ==
    LET rest == {k \in j..Len(l.sf) :
                    find_fleets(l.hostile_events,
                                [NoCriteria EXCEPT !.dest = {l.sf[k].origin}]) = <<>>}
    IN IF rest = {} THEN EnterExpeditions([l EXCEPT !.i = 0], exps)
       ELSE [pc |-> "sf_movement", loc |-> [l EXCEPT !.i = Min(rest)]]

\* `for saved_fleet_id, origin in dict(self._saved_fleets).items()`
EnterSavedLoop(l, sfs, exps) == SavedLoopFrom([l EXCEPT !.sf = sfs], 1, exps)
NextSaved(l, exps) == SavedLoopFrom(l, l.i + 1, exps)

\* the second `for hostile_event in sorted(hostile_events_per_planet, ...)`
EnterRecallLoop(l, sfs, exps) ==
    IF l.imminent = <<>> THEN EnterSavedLoop(l, sfs, exps)
    ELSE [pc |-> "dr_movement", loc |-> [l EXCEPT !.i = 1, !.targets = <<>>]]
NextRecall(l, sfs, exps) ==
    IF l.i < Len(l.imminent)
    THEN [pc |-> "dr_movement", loc |-> [l EXCEPT !.i = l.i + 1, !.targets = <<>>]]
    ELSE EnterSavedLoop(l, sfs, exps)

\* the first `for hostile_event in sorted(hostile_events_per_planet, ...)`
EnterSaveLoop(l, sfs, exps) ==
    IF l.imminent = <<>> THEN EnterRecallLoop(l, sfs, exps)
    ELSE [pc |-> "fs_research", loc |-> [l EXCEPT !.i = 1]]
NextSave(l, sfs, exps) ==
    IF l.i < Len(l.imminent)
    THEN [pc |-> "fs_research", loc |-> [l EXCEPT !.i = l.i + 1]]
    ELSE EnterRecallLoop(l, sfs, exps)

\* ------------------------------------------------------------------ bot: time
\* time passes: the clock moves on to a later instant of interest (an instant
\* of the environment or the time of a queued entry)
BotTick(points, maxTime) ==
    /\ pc = "loop"
    /\ \E t \in points \cup {event_q[i].time : i \in DOMAIN event_q} :
          /\ clock < t
          /\ t <= maxTime
          /\ clock' = t
    /\ UNCHANGED <<event_q, pc, cur, issued, cancelled, botVars, passVars>>

\* ------------------------------------------------------------------ bot: overview

\* resource_manager.get_overview() of _do_work; bodies are the sets of bodies
\* the account may have
StepOverview(bodies) ==
    /\ pc = "overview"
    /\ \E planets \in bodies :
        LET miss == CacheMiss(rm.overview, FALSE)
        IN /\ rm' = [rm EXCEPT !.overview = IF miss THEN Cached([planets |-> planets]) ELSE @]
           /\ calls' = Append(calls, Call("get_overview", miss, 0, 0, FALSE))
    /\ pc' = "events"
    /\ UNCHANGED <<event_q, clock, cur, issued, cancelled, botVars, loc, notes, result,
                   prev_events>>

\* ------------------------------------------------------------------ bot: hostile events
\* FleetEvent as far as the bot reads it; ships is "probes" when the event lists
\* espionage probes as its only ship type
FleetEvent(id, origin, dest, arrival_time, mission, return_flight, ships) ==
    [id |-> id, origin |-> origin, dest |-> dest, arrival_time |-> arrival_time,
     mission |-> mission, return_flight |-> return_flight, ships |-> ships]

\* last_friendly_arrivals.get(hostile_event.id): arrival of the last friendly fleet
\* expected at the attacked body before the attack, or None (0)
LastFriendlyArrival(hostile_event, events, planets, max_lead) ==
    LET returning_fleets == find_fleets(events,
            [NoCriteria EXCEPT !.origin = {hostile_event.dest}, !.is_return_flight = "yes",
                               !.arrives_after = hostile_event.arrival_time - max_lead,
                               !.arrives_before = hostile_event.arrival_time])
        deployment_fleets == find_fleets(events,
            [NoCriteria EXCEPT !.origin = planets, !.dest = {hostile_event.dest},
                               !.mission = {"deployment"},
                               !.arrives_after = hostile_event.arrival_time - max_lead,
                               !.arrives_before = hostile_event.arrival_time])
        last_incoming_fleet == get_latest_fleet(returning_fleets \o deployment_fleets)
    IN IF last_incoming_fleet = None THEN 0 ELSE last_incoming_fleet.arrival_time

\* the sequence s without its None entries
Somes(s) == SelectSeq(s, LAMBDA x : x # None)

\* "Notify user about hostile fleets that have been recalled."
RecalledNotes(last_seen, hostile_events, planets, current_time) ==
    Somes([i \in DOMAIN last_seen |->
        IF find_fleet_by_id(hostile_events, last_seen[i].id) = None
           /\ last_seen[i].arrival_time > current_time
        THEN NotifyHostileEventRecalled(match_planet(last_seen[i].dest, planets),
                                        last_seen[i].arrival_time)
        ELSE None])

\* "Notify user about current events."
CurrentNotes(events, last_seen, hostile_events, planets) ==
    IF events = <<>> THEN <<>>
    ELSE IF hostile_events # <<>>
    THEN Somes([i \in DOMAIN hostile_events |->
            LET hostile_event == hostile_events[i]
                planet == match_planet(hostile_event.dest, planets)
                previous_event_state == find_fleet_by_id(last_seen, hostile_event.id)
            IN IF previous_event_state = None
               THEN NotifyHostileEvent(planet, hostile_event.arrival_time, 0)
               ELSE IF hostile_event.arrival_time # previous_event_state.arrival_time
               THEN NotifyHostileEvent(planet, hostile_event.arrival_time,
                                       previous_event_state.arrival_time)
               ELSE None])
    ELSE IF last_seen # <<>> THEN <<NotifyPlanetsSafe>> ELSE <<>>

WakeupTime_AfterAttack(hostile_event, events, planets, current_time, max_lead, lead) ==
    hostile_event.arrival_time + 2

\* the wake-up time the pass derives from one hostile event; lead is the value
\* random.randint(min_time_before_attack_to_act, max_time_before_attack_to_act) returns
WakeupTime(hostile_event, events, planets, current_time, max_lead, lead) ==
    LET hostile_arrival == hostile_event.arrival_time
        last_friendly_arrival == LastFriendlyArrival(hostile_event, events, planets, max_lead)
    IN IF current_time < hostile_arrival - max_lead
       THEN hostile_arrival - lead
       ELSE IF last_friendly_arrival # 0
       THEN IF current_time < hostile_arrival - 10
               /\ hostile_arrival - 10 < last_friendly_arrival - 1
            THEN hostile_arrival - 10
            ELSE last_friendly_arrival + 1
       ELSE hostile_arrival + 1

\* [t for t in wakeup_times if current_time < t]
FutureTimes_All(wakeup_times, current_time) == wakeup_times
FutureTimes(wakeup_times, current_time) == {t \in wakeup_times : current_time < t}

\* min([...], default=None)
EarliestWakeupTime_Latest(wakeup_times, current_time) ==
    LET future == FutureTimes(wakeup_times, current_time)
    IN IF future = {} THEN 0 ELSE Max(future)
EarliestWakeupTime(wakeup_times, current_time) ==
    LET future == FutureTimes(wakeup_times, current_time)
    IN IF future = {} THEN 0 ELSE Min(future)

\* the events the save loop and the recall loop act on: the earliest event per
\* body, by arrival, without those it is not yet time to save from
Imminent_NoWindow(hostile_events, current_time, max_lead) ==
    LET fleets == get_earliest_fleet_per_destination(hostile_events)
    IN SortedByKeys(fleets, [i \in DOMAIN fleets |-> <<fleets[i].arrival_time>>]).seq

Imminent(hostile_events, current_time, max_lead) ==
    SelectSeq(LET fleets == get_earliest_fleet_per_destination(hostile_events)
              IN SortedByKeys(fleets, [i \in DOMAIN fleets |-> <<fleets[i].arrival_time>>]).seq,
              LAMBDA e : ~(current_time < e.arrival_time - max_lead))

\* `self._last_seen_hostile_events = hostile_events`
NextSnapshot_Keep(last_seen, hostile_events) == last_seen
NextSnapshot_Merge(last_seen, hostile_events) == last_seen \o hostile_events
NextSnapshot(last_seen, hostile_events) == hostile_events

\* uuid4() of bot.py: an identifier nobody holds, other than the one pushabs draws
FreshWakeupId == CHOOSE n \in 1..(Cardinality(UsedIds) + 2) : n \notin UsedIds \cup {FreshId}

\* _handle_hostile_events up to its first loop: read the events, tell the
\* listeners what changed, replace the defensive wake
StepEvents(eventLists) ==
    /\ pc = "events"
    /\ \E fetched \in eventLists :
        LET miss == CacheMiss(rm.events, FALSE)
            events == IF miss THEN fetched ELSE rm.events.value
            planets == rm.overview.value.planets
            hostile_events == DictById(find_hostile_events(events, planets))
            last_seen == last_seen_hostile_events
            current_time == clock
            max_lead == cfg.max_time_before_attack_to_act
            min_lead == cfg.min_time_before_attack_to_act
            cancelled_q ==
                IF last_scheduled_fs # None /\ loc.wakeup.id # last_scheduled_fs[2]
                THEN SchedulerCancel(event_q, last_scheduled_fs[1])
                ELSE event_q
            l == [loc EXCEPT !.current_time = current_time,
                             !.hostile_events = hostile_events,
                             !.imminent = Imminent(hostile_events, current_time, max_lead)]
        IN /\ rm' = [rm EXCEPT !.events = Cached(events)]
           /\ calls' = calls \o <<Call("get_overview", CacheMiss(rm.overview, FALSE), 0, 0, FALSE),
                                  Call("get_events", miss, 0, 0, FALSE)>>
           /\ last_seen_hostile_events' = NextSnapshot(last_seen, hostile_events)
           /\ prev_events' = [read |-> TRUE, events |-> events,
                               repeated |-> prev_events.read /\ prev_events.events = events]
           /\ notes' = notes \o RecalledNotes(last_seen, hostile_events, planets, current_time)
                             \o CurrentNotes(events, last_seen, hostile_events, planets)
           /\ \E lead \in [DOMAIN hostile_events -> min_lead..max_lead] :
                LET wakeup_times ==
                        {WakeupTime(hostile_events[i], events, planets, current_time,
                                    max_lead, lead[i]) : i \in DOMAIN hostile_events}
                    earliest_wakeup_time == EarliestWakeupTime(wakeup_times, current_time)
                IN IF earliest_wakeup_time # 0
                   THEN /\ event_q' = SchedulerPush(cancelled_q,
                                         Event(FreshId, earliest_wakeup_time, 0,
                                               WakeUp(FreshWakeupId), NoPeriod))
                        /\ last_scheduled_fs' = <<FreshId, FreshWakeupId>>
                   ELSE /\ event_q' = cancelled_q
                        /\ last_scheduled_fs' = None
           /\ Goto(EnterSaveLoop(l, saved_fleets, expeditions))
    /\ UNCHANGED <<clock, cur, issued, cancelled, cfg, periodic_wakeup_id, expeditions,
                   saved_fleets>>

\* ------------------------------------------------------------------ bot: escape flights
\* Coordinates.type of a body: body 2 is the moon of planet 1
BodyType(coords) == IF coords = 2 THEN "moon" ELSE "planet"

\* the speeds get_escape_flights tries: `fleet_speed + 1 for fleet_speed in range(10)`
FleetSpeeds == [i \in 1..10 |-> i]

\* get_escape_flights(engine, origin, destinations, ...): for every destination other
\* than the origin (in the order given), one flight per speed; engine holds the
\* answers of Engine.distance, flight_duration and flight_fuel_consumption
RECURSIVE get_escape_flights(_, _, _)
get_escape_flights(engine, origin, destinations) ==
    IF destinations = <<>> THEN <<>>
    ELSE LET destination == Head(destinations)
             flights == [i \in DOMAIN FleetSpeeds |->
                            [dest |-> destination, fleet_speed |-> FleetSpeeds[i],
                             fuel_consumption |-> engine.fuel[FleetSpeeds[i]],
                             duration |-> engine.duration[FleetSpeeds[i]],
                             distance |-> engine.distance]]
         IN (IF origin # destination THEN flights ELSE <<>>)
            \o get_escape_flights(engine, origin, Tail(destinations))

\* Python's int(bool)
IntOfBool(b) == IF b THEN 1 ELSE 0

\* the sort key `safety(flight)` of sort_escape_flights_by_safety
Safety(flight, hostile_events, max_lead, current_time) ==
    LET incoming_hostile_fleets ==
            find_fleets(hostile_events, [NoCriteria EXCEPT !.dest = {flight.dest}])
        earliest_hostile_fleet == get_earliest_fleet(incoming_hostile_fleets)
        hostile_event_before_arrival ==
            IF earliest_hostile_fleet # None
            THEN earliest_hostile_fleet.arrival_time - max_lead < current_time + flight.duration
            ELSE FALSE
    IN <<IF flight.distance = 5 THEN IntOfBool(hostile_event_before_arrival) ELSE 0,
         flight.distance,
         IntOfBool(BodyType(flight.dest) = "planet"),
         IF flight.distance = 5 THEN flight.duration ELSE flight.fuel_consumption>>

\* sort_escape_flights_by_safety(escape_flights, hostile_events, max_lead) at current_time
sort_escape_flights_by_safety_Unsorted(escape_flights, hostile_events, max_lead, current_time) == escape_flights

sort_escape_flights_by_safety(escape_flights, hostile_events, max_lead, current_time) ==
    SortedByKeys(escape_flights,
                 [i \in DOMAIN escape_flights |->
                     Safety(escape_flights[i], hostile_events, max_lead, current_time)]).seq

\* next((flight for flight in escape_flights if flight.fuel_consumption <= deuterium), None)
\* (FirstAffordable_Any: the first flight, whatever it burns)
FirstAffordable_Any(escape_flights, deuterium) ==
    IF escape_flights = <<>> THEN None ELSE escape_flights[1]

FirstAffordable(escape_flights, deuterium) ==
    LET ok == {i \in DOMAIN escape_flights : escape_flights[i].fuel_consumption <= deuterium}
    IN IF ok = {} THEN None ELSE escape_flights[Min(ok)]

\* dict.get(key, 0)
Get0(d, k) == IF k \in DOMAIN d THEN d[k] ELSE 0

\* get_cargo(resources, free_cargo_capacity): deuterium, then crystal, then metal
get_cargo_EvenShares(resources, free_cargo_capacity) ==
    [r \in {"deuterium", "crystal", "metal"} |->
        Min({Get0(resources, r), free_cargo_capacity \div 3})]

get_cargo(resources, free_cargo_capacity) ==
    LET d == Min({Get0(resources, "deuterium"), free_cargo_capacity})
        free1 == free_cargo_capacity - d
        c == Min({Get0(resources, "crystal"), free1})
        free2 == free1 - c
        m == Min({Get0(resources, "metal"), free2})
        loaded == (IF free_cargo_capacity <= 0 THEN {} ELSE {"deuterium"})
                  \cup (IF free_cargo_capacity <= 0 \/ free1 <= 0 THEN {} ELSE {"crystal"})
                  \cup (IF free_cargo_capacity <= 0 \/ free1 <= 0 \/ free2 <= 0 THEN {}
                        ELSE {"metal"})
    IN [r \in loaded |-> CASE r = "deuterium" -> d [] r = "crystal" -> c [] OTHER -> m]

\* ships_exist(ships): any(ships.values())
ships_exist(ships) == \E s \in DOMAIN ships : ships[s] # 0

\* the sequence of a set of bodies in the order of Overview.planets
RECURSIVE SeqOfSet(_)
SeqOfSet(S) == IF S = {} THEN <<>> ELSE <<Min(S)>> \o SeqOfSet(S \ {Min(S)})

NotifyFleetSaved(origin, hostile_arrival, destination, error) ==
    [type |-> "NotifyFleetSaved", origin |-> origin, hostile_arrival |-> hostile_arrival,
     destination |-> destination, error |-> error]

\* ------------------------------------------------------------------ bot: save loop
\* Movement as far as the bot reads it: the page the remote answers with, stamped
\* with the time of the answer
MovementPage(fetched) ==
    [fleets |-> fetched.fleets, free_fleet_slots |-> fetched.free_fleet_slots,
     free_expedition_slots |-> fetched.free_expedition_slots, timestamp |-> clock]

\* Research as far as the bot reads it
TheResearch == [technology |-> "technology"]

\* what a step of a pass never changes
passFrame == <<event_q, clock, cur, issued, cancelled, cfg, periodic_wakeup_id,
               last_scheduled_fs, last_seen_hostile_events, prev_events>>

\* self._saved_fleets[id] = planet
PutSaved(sfs, id, planet) ==
    IF \E k \in DOMAIN sfs : sfs[k].id = id
    THEN [k \in DOMAIN sfs |-> IF sfs[k].id = id THEN [id |-> id, origin |-> planet] ELSE sfs[k]]
    ELSE Append(sfs, [id |-> id, origin |-> planet])

\* self._saved_fleets.pop(id)
PopSaved_Keep(sfs, id) == sfs
PopSaved(sfs, id) == SelectSeq(sfs, LAMBDA e : e.id # id)

\* the body of the save loop up to `technology = resource_manager.get_research().technology`
FsResearch ==
    /\ pc = "fs_research"
    /\ LET miss == CacheMiss(rm.research, FALSE)
       IN /\ rm' = [rm EXCEPT !.research = IF miss THEN Cached(TheResearch) ELSE @]
          /\ calls' = Append(calls, Call("get_research", miss, 0, 0, FALSE))
    /\ Goto([pc |-> "fs_resources",
             loc |-> [loc EXCEPT !.planet = match_planet(SaveEvent(loc).dest, rm.overview.value.planets),
                                 !.hostile_arrival = SaveEvent(loc).arrival_time]])
    /\ UNCHANGED <<passFrame, expeditions, saved_fleets, notes>>

\* resources = self.client.get_resources(planet).amount; deuterium = resources.setdefault(...)
FsResources(resourceChoices) ==
    /\ pc = "fs_resources"
    /\ \E amount \in resourceChoices :
          LET deuterium == Get0(amount, "deuterium")
              resources == [r \in DOMAIN amount \cup {"deuterium"} |-> Get0(amount, r)]
          IN Goto([pc |-> "fs_dispatch",
                   loc |-> [loc EXCEPT !.resources = resources, !.deuterium = deuterium]])
    /\ calls' = Append(calls, Call("get_resources", TRUE, loc.planet, 0, FALSE))
    /\ UNCHANGED <<passFrame, expeditions, saved_fleets, rm, notes>>

\* the dispatch token of the get_fleet_dispatch call made now: tokens differ
\* from call to call (NewToken_PerBody: one token per body)
NewToken_PerBody == loc.planet
NewToken == Len(calls) + 1

\* fleet_dispatch = self.client.get_fleet_dispatch(planet) and the choice of the
\* escape flight, up to the arguments of send_fleet
FsDispatch(dispatchChoices, engines) ==
    /\ pc = "fs_dispatch"
    /\ \E page \in dispatchChoices, engine \in engines :
        LET fleet_dispatch == [dispatch_token |-> NewToken, ships |-> page.ships,
                               free_fleet_slots |-> page.free_fleet_slots,
                               free_expedition_slots |-> page.free_expedition_slots,
                               timestamp |-> clock]
            escape_flights == sort_escape_flights_by_safety(
                                  get_escape_flights(engine, loc.planet,
                                                     SeqOfSet(rm.overview.value.planets)),
                                  loc.hostile_events, cfg.max_time_before_attack_to_act, clock)
            escape_flight == FirstAffordable(escape_flights, loc.deuterium)
            error == IF ~ships_exist(fleet_dispatch.ships) THEN "No ships on the planet."
                     ELSE IF fleet_dispatch.free_fleet_slots = 0 THEN "No free fleet slots."
                     ELSE IF escape_flights = <<>> THEN "No escape route."
                     ELSE IF escape_flight = None THEN "Not enough fuel."
                     ELSE ""
        IN IF error # ""
           THEN /\ notes' = Append(notes, NotifyFleetSaved(loc.planet, loc.hostile_arrival, 0, error))
                /\ Goto(NextSave(loc, saved_fleets, expeditions))
           ELSE LET resources == [loc.resources EXCEPT
                                     !["deuterium"] = @ - escape_flight.fuel_consumption]
                    cargo == get_cargo(resources, engine.cargo_capacity)
                IN /\ notes' = notes
                   /\ Goto([pc |-> "fs_send",
                            loc |-> [loc EXCEPT !.resources = resources,
                                                !.fleet_dispatch = fleet_dispatch,
                                                !.escape_flight = escape_flight,
                                                !.cargo = cargo]])
    /\ calls' = Append(calls, Call("get_fleet_dispatch", TRUE, loc.planet, NewToken, FALSE))
    /\ UNCHANGED <<passFrame, expeditions, saved_fleets, rm>>

\* success = self.client.send_fleet(origin=planet, ..., token=fleet_dispatch.dispatch_token)
FsSend ==
    /\ pc = "fs_send"
    /\ \E success \in BOOLEAN :
        /\ calls' = Append(calls, [Call("send_fleet", TRUE, loc.planet,
                                        loc.fleet_dispatch.dispatch_token, FALSE)
                                   EXCEPT !.success = success])
        /\ IF success
           THEN /\ notes' = notes
                /\ Goto([pc |-> "fs_movement", loc |-> loc])
           ELSE /\ notes' = Append(notes, NotifyFleetSaved(loc.planet, loc.hostile_arrival,
                                       match_planet(loc.escape_flight.dest, rm.overview.value.planets),
                                       "Failed to send fleet."))
                /\ Goto(NextSave(loc, saved_fleets, expeditions))
    /\ UNCHANGED <<passFrame, expeditions, saved_fleets, rm>>

\* movement = resource_manager.get_movement(invalidate_cache=True) and the search
\* for the saved fleet
FsMovement(movementChoices) ==
    /\ pc = "fs_movement"
    /\ \E fetched \in movementChoices :
        LET miss == MovementMiss(rm.movement, NoId, TRUE)
            movement == IF miss THEN MovementPage(fetched) ELSE rm.movement.value
            fleets == find_fleets(movement.fleets,
                        [NoCriteria EXCEPT !.origin = {loc.planet},
                                           !.dest = {loc.escape_flight.dest},
                                           !.mission = {"deployment"},
                                           !.ships = loc.fleet_dispatch.ships,
                                           !.cargo = loc.cargo,
                                           !.departs_before = movement.timestamp + 1,
                                           !.departs_after = loc.fleet_dispatch.timestamp - 1])
            error == IF Len(fleets) = 0 THEN "Failed to find the fleet."
                     ELSE IF Len(fleets) > 1 THEN "Multiple fleets matched." ELSE ""
            sfs == IF Len(fleets) = 1 /\ cfg.try_recalling_saved_fleet
                   THEN PutSaved(saved_fleets, fleets[1].id, loc.planet)
                   ELSE saved_fleets
        IN /\ rm' = [rm EXCEPT !.movement = Cached(movement)]
           /\ calls' = Append(calls, Call("get_movement", miss, 0, 0, TRUE))
           /\ saved_fleets' = sfs
           /\ notes' = Append(notes, NotifyFleetSaved(loc.planet, loc.hostile_arrival,
                                  match_planet(loc.escape_flight.dest, rm.overview.value.planets), error))
           /\ Goto(NextSave(loc, sfs, expeditions))
    /\ UNCHANGED <<passFrame, expeditions>>

\* ------------------------------------------------------------------ bot: recall loops
\* what a step that may end in the except clause never changes
raiseFrame == <<clock, cur, issued, cancelled, cfg, periodic_wakeup_id, last_scheduled_fs,
                last_seen_hostile_events, prev_events>>

\* FleetMovement.flight_duration
flight_duration(fleet) ==
    IF fleet.holding THEN fleet.arrival_time - fleet.departure_time - fleet.holding_time
    ELSE (fleet.arrival_time - fleet.departure_time - fleet.holding_time) \div 2

NotifyFleetRecalled(origin, destination, hostile_arrival, error) ==
    [type |-> "NotifyFleetRecalled", origin |-> origin, destination |-> destination,
     hostile_arrival |-> hostile_arrival, error |-> error]
NotifySavedFleetRecalled(origin, error) ==
    [type |-> "NotifySavedFleetRecalled", origin |-> origin, error |-> error]

\* the deployment fleets that would reach the attacked body within 10 s of the attack
RecallTargets_All(fleets, planets, planet, hostile_arrival) ==
    find_fleets(fleets, [NoCriteria EXCEPT !.origin = planets, !.dest = {planet},
                                           !.mission = {"deployment"},
                                           !.is_return_flight = "no"])

RecallTargets(fleets, planets, planet, hostile_arrival) ==
    SelectSeq(find_fleets(fleets, [NoCriteria EXCEPT !.origin = planets, !.dest = {planet},
                                                     !.mission = {"deployment"},
                                                     !.is_return_flight = "no"]),
              LAMBDA deployment_fleet :
                  LET deployment_arrival ==
                          deployment_fleet.departure_time + flight_duration(deployment_fleet)
                  IN hostile_arrival - 10 <= deployment_arrival
                     /\ deployment_arrival <= hostile_arrival + 10)

\* the body of the second loop up to `movement = resource_manager.get_movement()`
DrMovement(movementChoices) ==
    /\ pc = "dr_movement"
    /\ \E fetched \in movementChoices :
        LET miss == MovementMiss(rm.movement, NoId, FALSE)
            movement == IF miss THEN MovementPage(fetched) ELSE rm.movement.value
            planet == match_planet(SaveEvent(loc).dest, rm.overview.value.planets)
            hostile_arrival == SaveEvent(loc).arrival_time
            targets == RecallTargets(movement.fleets, rm.overview.value.planets, planet, hostile_arrival)
            l == [loc EXCEPT !.planet = planet, !.hostile_arrival = hostile_arrival,
                             !.targets = targets]
        IN /\ rm' = [rm EXCEPT !.movement = Cached(movement)]
           /\ calls' = Append(calls, Call("get_movement", miss, 0, 0, FALSE))
           /\ Goto(IF targets = <<>> THEN NextRecall(l, saved_fleets, expeditions)
                   ELSE [pc |-> "dr_recall", loc |-> l])
    /\ UNCHANGED <<passFrame, expeditions, saved_fleets, notes>>

\* movement = resource_manager.get_movement(return_fleet=deployment_fleet) and the
\* check that the fleet was returned
DrRecall(movementChoices) ==
    /\ pc = "dr_recall"
    /\ \E fetched \in movementChoices :
        LET target == Head(loc.targets)
            miss == MovementMiss(rm.movement, target.id, FALSE)
            movement == IF miss THEN MovementPage(fetched) ELSE rm.movement.value
            deployment_fleet == find_fleet_by_id(movement.fleets, target.id)
            l == [loc EXCEPT !.targets = Tail(loc.targets)]
        IN /\ rm' = [rm EXCEPT !.movement = Cached(movement)]
           /\ calls' = Append(calls, Call("get_movement", miss, target.id, 0, TRUE))
           /\ IF deployment_fleet = None
              THEN \* AttributeError: 'NoneType' object has no attribute 'origin'
                   /\ Except
                   /\ UNCHANGED <<loc, notes>>
              ELSE /\ notes' = Append(notes, NotifyFleetRecalled(
                                 match_planet(deployment_fleet.origin, rm.overview.value.planets),
                                 match_planet(deployment_fleet.dest, rm.overview.value.planets),
                                 loc.hostile_arrival,
                                 IF deployment_fleet.return_flight THEN ""
                                 ELSE "Failed to return fleet."))
                   /\ event_q' = event_q
                   /\ Goto(IF l.targets = <<>> THEN NextRecall(l, saved_fleets, expeditions)
                           ELSE [pc |-> "dr_recall", loc |-> l])
    /\ UNCHANGED <<raiseFrame, expeditions, saved_fleets>>

\* the body of the saved-fleet loop up to the decision to recall
SfMovement(movementChoices) ==
    /\ pc = "sf_movement"
    /\ \E fetched \in movementChoices :
        LET entry == loc.sf[loc.i]
            miss == MovementMiss(rm.movement, NoId, FALSE)
            movement == IF miss THEN MovementPage(fetched) ELSE rm.movement.value
            saved_fleet == find_fleet_by_id(movement.fleets, entry.id)
            error == IF saved_fleet = None THEN "Fleet not flying anymore."
                     ELSE IF saved_fleet.return_flight THEN "Fleet already returning."
                     ELSE IF clock - saved_fleet.departure_time > cfg.max_return_flight_time
                     THEN "Fleet would arrive too late."
                     ELSE ""
        IN /\ rm' = [rm EXCEPT !.movement = Cached(movement)]
           /\ calls' = Append(calls, Call("get_movement", miss, 0, 0, FALSE))
           /\ IF error # ""
              THEN /\ saved_fleets' = PopSaved(saved_fleets, entry.id)
                   /\ notes' = Append(notes, NotifySavedFleetRecalled(entry.origin, error))
                   /\ Goto(NextSaved(loc, expeditions))
              ELSE /\ UNCHANGED <<saved_fleets, notes>>
                   /\ Goto([pc |-> "sf_recall", loc |-> loc])
    /\ UNCHANGED <<passFrame, expeditions>>

\* movement = resource_manager.get_movement(return_fleet=saved_fleet_id) and the
\* check that the fleet was returned
SfRecall(movementChoices) ==
    /\ pc = "sf_recall"
    /\ \E fetched \in movementChoices :
        LET entry == loc.sf[loc.i]
            miss == MovementMiss(rm.movement, entry.id, FALSE)
            movement == IF miss THEN MovementPage(fetched) ELSE rm.movement.value
            saved_fleet == find_fleet_by_id(movement.fleets, entry.id)
        IN /\ rm' = [rm EXCEPT !.movement = Cached(movement)]
           /\ calls' = Append(calls, Call("get_movement", miss, entry.id, 0, TRUE))
           /\ IF saved_fleet = None
              THEN \* AttributeError: 'NoneType' object has no attribute 'return_flight'
                   /\ Except
                   /\ UNCHANGED <<loc, notes, saved_fleets>>
              ELSE /\ saved_fleets' = IF saved_fleet.return_flight
                                      THEN PopSaved(saved_fleets, entry.id) ELSE saved_fleets
                   /\ notes' = Append(notes, NotifySavedFleetRecalled(entry.origin,
                                 IF saved_fleet.return_flight THEN ""
                                 ELSE "Failed to recall fleet."))
                   /\ event_q' = event_q
                   /\ Goto(NextSaved(loc, expeditions))
    /\ UNCHANGED <<raiseFrame, expeditions>>

\* ------------------------------------------------------------------ bot: expeditions
\* SendExpedition(...); repeat = 'forever' is forever = TRUE
SendExpedition(id, origin, dest, ships, cargo, speed, holding_time, forever, repeat) ==
    [type |-> "SendExpedition", id |-> id, origin |-> origin, dest |-> dest, ships |-> ships,
     cargo |-> cargo, speed |-> speed, holding_time |-> holding_time, forever |-> forever,
     repeat |-> repeat]

\* CancelExpedition(id, return_fleet)
CancelExpedition(id, return_fleet) ==
    [type |-> "CancelExpedition", id |-> id, return_fleet |-> return_fleet]

\* Expedition(data=work)
Expedition(data) == [data |-> data, cancelled |-> None, fleet_id |-> NoId]

\* Expedition.running
running(expedition) == expedition.fleet_id # NoId

\* self._expeditions[id], and self._expeditions.pop(id)
ExpeditionOf(exps, id) == exps[CHOOSE k \in DOMAIN exps : exps[k].data.id = id]
PopExpedition(exps, id) == SelectSeq(exps, LAMBDA e : e.data.id # id)
SetExpedition(exps, expedition) ==
    [k \in DOMAIN exps |-> IF exps[k].data.id = expedition.data.id THEN expedition ELSE exps[k]]

NotifyExpeditionFinished(expedition, error) ==
    [type |-> "NotifyExpeditionFinished", expedition |-> expedition, error |-> error]
NotifyExpeditionCancelled(expedition, cancellation, fleet_returned) ==
    [type |-> "NotifyExpeditionCancelled", expedition |-> expedition,
     cancellation |-> cancellation, fleet_returned |-> fleet_returned]
NotifyDebrisHarvest(destination, debris, error) ==
    [type |-> "NotifyDebrisHarvest", destination |-> destination, debris |-> debris,
     error |-> error]

HandleExpeditionWork_Overwrite ==
    /\ pc = "consume"
    /\ cur.data.type \in {"SendExpedition", "CancelExpedition"}
    /\ started
    /\ LET work == cur.data
           known == \E k \in DOMAIN expeditions : expeditions[k].data.id = work.id
       IN expeditions' =
            IF work.type = "SendExpedition"
            THEN IF known THEN SetExpedition(expeditions, Expedition(work))
                 ELSE Append(expeditions, Expedition(work))
            ELSE IF known
                 THEN SetExpedition(expeditions,
                                    [ExpeditionOf(expeditions, work.id) EXCEPT !.cancelled = work])
                 ELSE expeditions
    /\ pc' = "return"
    /\ result' = "ok"
    /\ UNCHANGED <<event_q, clock, cur, issued, cancelled, cfg, periodic_wakeup_id, exc_count,
                   last_scheduled_fs, last_seen_hostile_events, saved_fleets, rm, loc, notes,
                   calls, prev_events>>

\* handle_work(work) for SendExpedition and CancelExpedition
HandleExpeditionWork ==
    /\ pc = "consume"
    /\ cur.data.type \in {"SendExpedition", "CancelExpedition"}
    /\ started
    /\ LET work == cur.data
           known == \E k \in DOMAIN expeditions : expeditions[k].data.id = work.id
       IN expeditions' =
            IF work.type = "SendExpedition"
            THEN IF known THEN expeditions ELSE Append(expeditions, Expedition(work))
            ELSE IF known
                 THEN SetExpedition(expeditions,
                                    [ExpeditionOf(expeditions, work.id) EXCEPT !.cancelled = work])
                 ELSE expeditions
    /\ pc' = "return"
    /\ result' = "ok"
    /\ UNCHANGED <<event_q, clock, cur, issued, cancelled, cfg, periodic_wakeup_id, exc_count,
                   last_scheduled_fs, last_seen_hostile_events, saved_fleets, rm, loc, notes,
                   calls, prev_events>>

get_unassigned_expedition_fleets_All(fleets, exps) ==
    SelectSeq(fleets, LAMBDA fleet : fleet.mission = "expedition")

\* get_unassigned_expedition_fleets(fleets, expeditions)
get_unassigned_expedition_fleets(fleets, exps) ==
    LET assigned_fleet_ids == {exps[k].fleet_id : k \in {j \in DOMAIN exps : running(exps[j])}}
    IN SelectSeq(fleets, LAMBDA fleet : fleet.mission = "expedition"
                                        /\ fleet.id \notin assigned_fleet_ids)

\* "match this expedition event with any unassigned expedition fleet", from the
\* k-th expedition on
RECURSIVE Reattach(_, _, _)
Reattach(exps, fleets, k) ==
    IF k > Len(exps) THEN exps
    ELSE LET expedition == exps[k]
             matched == find_fleets(get_unassigned_expedition_fleets(fleets, exps),
                            [NoCriteria EXCEPT !.origin = {expedition.data.origin},
                                               !.dest = {expedition.data.dest},
                                               !.mission = {"expedition"},
                                               !.ships = expedition.data.ships])
         IN Reattach(IF matched = <<>> THEN exps
                     ELSE [exps EXCEPT ![k].fleet_id = matched[1].id], fleets, k + 1)

\* move on to position next.pc with locals, expeditions and notifications of next
GotoX(next) ==
    /\ Goto(next)
    /\ expeditions' = next.exps
    /\ notes' = next.notes


\* sum(dictionary.values())
RECURSIVE SumValues(_)
SumValues(d) ==
    IF DOMAIN d = {} THEN 0
    ELSE LET k == CHOOSE j \in DOMAIN d : TRUE
         IN d[k] + SumValues([j \in DOMAIN d \ {k} |-> d[j]])

\* enough_ships(available_ships, required_ships)
enough_ships(available_ships, required_ships) ==
    \A ship \in DOMAIN required_ships : required_ships[ship] <= Get0(available_ships, ship)

\* get_fuel_consumption(engine, origin, destination, ships, technology, fleet_speed, ...)
get_fuel_consumption(engine, fleet_speed) == engine.fuel[fleet_speed]

\* the harvest goes on with the next origin of the destination; after the last
\* one a shortfall is reported and the next destination is read
RECURSIVE HarvestFrom(_, _, _)
HarvestFrom(l, exps, ns) ==
    IF l.origins # <<>>
    THEN [pc |-> "hv_research", loc |-> l, exps |-> exps, notes |-> ns]
    ELSE LET short == l.destination # 0 /\ l.required_pathfinders > 0
             ns2 == IF short
                    THEN Append(ns, NotifyDebrisHarvest(l.destination, l.debris,
                                                        l.required_pathfinders))
                    ELSE ns
         IN IF l.dests = <<>>
            THEN [pc |-> "return", loc |-> [l EXCEPT !.destination = 0], exps |-> exps,
                  notes |-> ns2]
            ELSE [pc |-> "hv_galaxy", loc |-> [l EXCEPT !.destination = 0], exps |-> exps,
                  notes |-> ns2]

\* `if self.harvest_expedition_debris:` and the set of expedition destinations
EnterHarvest(l, exps, ns) ==
    IF cfg.harvest_expedition_debris
    THEN HarvestFrom([l EXCEPT !.dests = SeqOfSet({exps[k].data.dest : k \in DOMAIN exps}),
                               !.origins = <<>>, !.destination = 0], exps, ns)
    ELSE [pc |-> "return", loc |-> l, exps |-> exps, notes |-> ns]

RECURSIVE DispatchFrom_NoSlots(_, _, _)
DispatchFrom_NoSlots(l, exps, ns) ==
    IF l.todo = <<>> THEN EnterHarvest(l, exps, ns)
    ELSE LET expedition == ExpeditionOf(exps, Head(l.todo))
             rest == [l EXCEPT !.todo = Tail(l.todo)]
             planet == match_planet(expedition.data.origin, rm.overview.value.planets)
         IN IF planet = 0
            THEN DispatchFrom_NoSlots(rest, PopExpedition(exps, expedition.data.id),
                     Append(ns, NotifyExpeditionFinished(expedition.data,
                                                         "Invalid expedition origin.")))
            ELSE IF running(expedition) THEN DispatchFrom_NoSlots(rest, exps, ns)
            ELSE IF find_hostile_events(rm.events.value, {planet}) # <<>>
            THEN DispatchFrom_NoSlots(rest, exps, ns)
            ELSE [pc |-> "ex_research",
                  loc |-> [l EXCEPT !.expedition = expedition.data.id, !.planet = planet],
                  exps |-> exps, notes |-> ns]

\* the dispatch loop goes on with the first expedition of l.todo that gets as far
\* as the remote reads; `break` and the end of the list lead to the harvest
RECURSIVE DispatchFrom(_, _, _)
DispatchFrom(l, exps, ns) ==
    IF l.todo = <<>> THEN EnterHarvest(l, exps, ns)
    ELSE LET expedition == ExpeditionOf(exps, Head(l.todo))
             rest == [l EXCEPT !.todo = Tail(l.todo)]
             planet == match_planet(expedition.data.origin, rm.overview.value.planets)
         IN IF planet = 0
            THEN DispatchFrom(rest, PopExpedition(exps, expedition.data.id),
                     Append(ns, NotifyExpeditionFinished(expedition.data,
                                                         "Invalid expedition origin.")))
            ELSE IF running(expedition) THEN DispatchFrom(rest, exps, ns)
            ELSE IF l.movement.free_fleet_slots = 0 \/ l.movement.free_expedition_slots = 0
            THEN EnterHarvest(rest, exps, ns)
            ELSE IF find_hostile_events(rm.events.value, {planet}) # <<>>
            THEN DispatchFrom(rest, exps, ns)
            ELSE [pc |-> "ex_research",
                  loc |-> [l EXCEPT !.expedition = expedition.data.id, !.planet = planet],
                  exps |-> exps, notes |-> ns]

\* `continue` in the dispatch loop
NextDispatch_Drop(l, exps, ns) == DispatchFrom([l EXCEPT !.todo = Tail(l.todo)], PopExpedition(exps, Head(l.todo)), ns)

NextDispatch(l, exps, ns) == DispatchFrom([l EXCEPT !.todo = Tail(l.todo)], exps, ns)

\* `for expedition in finished_expeditions` goes on with the first entry of
\* l.finished up to an entry whose fleet is to be recalled
RECURSIVE DrainFrom(_, _, _)
DrainFrom(l, exps, ns) ==
    IF l.finished = <<>>
    THEN LET reattached == Reattach(exps, l.movement.fleets, 1)
         IN DispatchFrom([l EXCEPT !.todo = [k \in DOMAIN reattached |-> reattached[k].data.id]],
                         reattached, ns)
    ELSE LET expedition == ExpeditionOf(exps, Head(l.finished))
             rest == [l EXCEPT !.finished = Tail(l.finished)]
         IN IF expedition.cancelled # None
            THEN IF expedition.cancelled.return_fleet
                 THEN [pc |-> "ex_recall", loc |-> l, exps |-> exps, notes |-> ns]
                 ELSE DrainFrom(rest, PopExpedition(exps, expedition.data.id),
                          Append(ns, NotifyExpeditionCancelled(expedition.data,
                                                               expedition.cancelled, FALSE)))
            ELSE IF ~expedition.data.forever /\ expedition.data.repeat = 0
            THEN DrainFrom(rest, PopExpedition(exps, expedition.data.id),
                     Append(ns, NotifyExpeditionFinished(expedition.data, "")))
            ELSE DrainFrom(rest, SetExpedition(exps, [expedition EXCEPT !.fleet_id = NoId]), ns)


\* _handle_expeditions up to the list of finished expeditions
ExMovement(movementChoices) ==
    /\ pc = "ex_movement"
    /\ \E fetched \in movementChoices :
        LET miss == MovementMiss(rm.movement, NoId, FALSE)
            movement == IF miss THEN MovementPage(fetched) ELSE rm.movement.value
            finished_expeditions ==
                SelectSeq(expeditions, LAMBDA expedition :
                    \/ IF expedition.fleet_id = NoId THEN movement.fleets = <<>>
                       ELSE find_fleet_by_id(movement.fleets, expedition.fleet_id) = None
                    \/ expedition.cancelled # None)
            l == [loc EXCEPT !.movement = movement,
                             !.finished = [k \in DOMAIN finished_expeditions |->
                                              finished_expeditions[k].data.id]]
        IN /\ rm' = [rm EXCEPT !.movement = Cached(movement)]
           /\ calls' = calls \o <<Call("get_overview", CacheMiss(rm.overview, FALSE), 0, 0, FALSE),
                                  Call("get_events", CacheMiss(rm.events, FALSE), 0, 0, FALSE),
                                  Call("get_movement", miss, 0, 0, FALSE)>>
           /\ GotoX(DrainFrom(l, expeditions, notes))
    /\ UNCHANGED <<passFrame, saved_fleets>>

\* the fleet of the cancelled expedition the drain has come to, as
\* find_fleets(movement.fleets, id=expedition.fleet_id) finds it; with id None
\* the call answers with a list
RecalledFleet ==
    LET expedition == ExpeditionOf(expeditions, Head(loc.finished))
    IN IF expedition.fleet_id = NoId THEN None
       ELSE find_fleet_by_id(loc.movement.fleets, expedition.fleet_id)

\* `if not fleet.holding and not fleet.return_flight`
MustRecall == RecalledFleet # None /\ ~RecalledFleet.holding /\ ~RecalledFleet.return_flight

\* the drain of a cancelled expedition whose fleet is to be returned
ExRecall(movementChoices) ==
    /\ pc = "ex_recall"
    /\ LET expedition == ExpeditionOf(expeditions, Head(loc.finished))
           rest == [loc EXCEPT !.finished = Tail(loc.finished)]
           exps == PopExpedition(expeditions, expedition.data.id)
           cancelled_note(fleet_returned) ==
               NotifyExpeditionCancelled(expedition.data, expedition.cancelled, fleet_returned)
       IN IF RecalledFleet = None
          THEN \* AttributeError: no attribute 'holding'
               /\ Except
               /\ UNCHANGED <<loc, notes, expeditions, rm, calls>>
          ELSE IF ~MustRecall
          THEN /\ event_q' = event_q
               /\ GotoX(DrainFrom(rest, exps, Append(notes, cancelled_note(FALSE))))
               /\ UNCHANGED <<rm, calls>>
          ELSE \E fetched \in movementChoices :
                LET movement == MovementPage(fetched)
                    fleet == find_fleet_by_id(movement.fleets, expedition.fleet_id)
                IN /\ rm' = [rm EXCEPT !.movement = Cached(movement)]
                   /\ calls' = Append(calls, Call("get_movement",
                                   MovementMiss(rm.movement, expedition.fleet_id, FALSE),
                                   expedition.fleet_id, 0, TRUE))
                   /\ IF fleet = None
                      THEN \* AttributeError: 'NoneType' object has no attribute 'return_flight'
                           /\ Except
                           /\ UNCHANGED <<loc, notes, expeditions>>
                      ELSE /\ event_q' = event_q
                           /\ GotoX(DrainFrom([rest EXCEPT !.movement = movement], exps,
                                        Append(notes, cancelled_note(fleet.return_flight))))
    /\ UNCHANGED <<raiseFrame, saved_fleets>>

\* the body of the dispatch loop up to `technology = resource_manager.get_research().technology`
ExResearch ==
    /\ pc = "ex_research"
    /\ LET miss == CacheMiss(rm.research, FALSE)
       IN /\ rm' = [rm EXCEPT !.research = IF miss THEN Cached(TheResearch) ELSE @]
          /\ calls' = Append(calls, Call("get_research", miss, 0, 0, FALSE))
    /\ Goto([pc |-> "ex_resources", loc |-> loc])
    /\ UNCHANGED <<passFrame, expeditions, saved_fleets, notes>>

\* resources = self.client.get_resources(planet).amount; deuterium = resources.setdefault(...)
ExResources(resourceChoices) ==
    /\ pc = "ex_resources"
    /\ \E amount \in resourceChoices :
          LET deuterium == Get0(amount, "deuterium")
              resources == [r \in DOMAIN amount \cup {"deuterium"} |-> Get0(amount, r)]
          IN Goto([pc |-> "ex_dispatch",
                   loc |-> [loc EXCEPT !.resources = resources, !.deuterium = deuterium]])
    /\ calls' = Append(calls, Call("get_resources", TRUE, loc.planet, 0, FALSE))
    /\ UNCHANGED <<passFrame, expeditions, saved_fleets, rm, notes>>

\* fleet_dispatch = self.client.get_fleet_dispatch(planet) and the checks of
\* ships, capacity, resources and fuel, up to the arguments of send_fleet
ExDispatch(dispatchChoices, engines) ==
    /\ pc = "ex_dispatch"
    /\ \E page \in dispatchChoices, engine \in engines :
        LET expedition == ExpeditionOf(expeditions, loc.expedition)
            fleet_dispatch == [dispatch_token |-> NewToken, ships |-> page.ships,
                               free_fleet_slots |-> page.free_fleet_slots,
                               free_expedition_slots |-> page.free_expedition_slots,
                               timestamp |-> clock]
            cargo == expedition.data.cargo
            resources_available ==
                \A resource \in DOMAIN cargo : Get0(loc.resources, resource) >= cargo[resource]
            fuel_consumption == get_fuel_consumption(engine, expedition.data.speed)
            l == [loc EXCEPT !.fleet_dispatch = fleet_dispatch, !.cargo = cargo]
        IN IF ~enough_ships(fleet_dispatch.ships, expedition.data.ships)
           THEN GotoX(NextDispatch(l, expeditions, notes))
           ELSE IF SumValues(cargo) > engine.cargo_capacity
           THEN GotoX(NextDispatch(l, PopExpedition(expeditions, expedition.data.id),
                          Append(notes, NotifyExpeditionFinished(expedition.data,
                                            "Not enough capacity for the cargo."))))
           ELSE IF ~resources_available THEN GotoX(NextDispatch(l, expeditions, notes))
           ELSE IF loc.deuterium - Get0(cargo, "deuterium") < fuel_consumption
           THEN GotoX(NextDispatch(l, expeditions, notes))
           ELSE GotoX([pc |-> "ex_send", loc |-> l, exps |-> expeditions, notes |-> notes])
    /\ calls' = Append(calls, Call("get_fleet_dispatch", TRUE, loc.planet, NewToken, FALSE))
    /\ UNCHANGED <<passFrame, saved_fleets, rm>>

\* success = self.client.send_fleet(origin=planet, ..., mission=Mission.expedition, ...)
ExSend ==
    /\ pc = "ex_send"
    /\ \E success \in BOOLEAN :
        LET expedition == ExpeditionOf(expeditions, loc.expedition)
        IN /\ calls' = Append(calls, [Call("send_fleet", TRUE, loc.planet,
                                           loc.fleet_dispatch.dispatch_token, FALSE)
                                      EXCEPT !.success = success])
           /\ IF success
              THEN GotoX([pc |-> "ex_track", loc |-> loc, notes |-> notes,
                          exps |-> SetExpedition(expeditions,
                                      IF expedition.data.forever THEN expedition
                                      ELSE [expedition EXCEPT !.data.repeat = @ - 1])])
              ELSE GotoX(NextDispatch(loc, PopExpedition(expeditions, expedition.data.id),
                             Append(notes, NotifyExpeditionFinished(expedition.data,
                                               "Failed to send the expedition fleet."))))
    /\ UNCHANGED <<passFrame, saved_fleets, rm>>

ExTrack_First(movementChoices) ==
    /\ pc = "ex_track"
    /\ \E fetched \in movementChoices :
        LET expedition == ExpeditionOf(expeditions, loc.expedition)
            miss == MovementMiss(rm.movement, NoId, TRUE)
            movement == IF miss THEN MovementPage(fetched) ELSE rm.movement.value
            fleets == find_fleets(get_unassigned_expedition_fleets(movement.fleets, expeditions),
                        [NoCriteria EXCEPT !.origin = {loc.planet},
                                           !.dest = {expedition.data.dest},
                                           !.mission = {"expedition"},
                                           !.ships = expedition.data.ships,
                                           !.cargo = loc.cargo,
                                           !.departs_before = movement.timestamp + 1,
                                           !.departs_after = loc.fleet_dispatch.timestamp - 1])
            exps == IF Len(fleets) >= 1
                    THEN SetExpedition(expeditions, [expedition EXCEPT !.fleet_id = fleets[1].id])
                    ELSE expeditions
        IN /\ rm' = [rm EXCEPT !.movement = Cached(movement)]
           /\ calls' = Append(calls, Call("get_movement", miss, 0, 0, TRUE))
           /\ GotoX(NextDispatch([loc EXCEPT !.movement = movement], exps, notes))
    /\ UNCHANGED <<passFrame, saved_fleets>>

\* movement = resource_manager.get_movement(invalidate_cache=True) and the search
\* for the expedition fleet
ExTrack(movementChoices) ==
    /\ pc = "ex_track"
    /\ \E fetched \in movementChoices :
        LET expedition == ExpeditionOf(expeditions, loc.expedition)
            miss == MovementMiss(rm.movement, NoId, TRUE)
            movement == IF miss THEN MovementPage(fetched) ELSE rm.movement.value
            fleets == find_fleets(get_unassigned_expedition_fleets(movement.fleets, expeditions),
                        [NoCriteria EXCEPT !.origin = {loc.planet},
                                           !.dest = {expedition.data.dest},
                                           !.mission = {"expedition"},
                                           !.ships = expedition.data.ships,
                                           !.cargo = loc.cargo,
                                           !.departs_before = movement.timestamp + 1,
                                           !.departs_after = loc.fleet_dispatch.timestamp - 1])
            exps == IF Len(fleets) = 1
                    THEN SetExpedition(expeditions, [expedition EXCEPT !.fleet_id = fleets[1].id])
                    ELSE expeditions
        IN /\ rm' = [rm EXCEPT !.movement = Cached(movement)]
           /\ calls' = Append(calls, Call("get_movement", miss, 0, 0, TRUE))
           /\ GotoX(NextDispatch([loc EXCEPT !.movement = movement], exps, notes))
    /\ UNCHANGED <<passFrame, saved_fleets>>


\* ------------------------------------------------------------------ bot: debris harvest
\* `continue` and the end of the body of `for origin_coords in sorted(expedition_origins, ...)`
NextOrigin_Stop(l, exps, ns) == HarvestFrom([l EXCEPT !.origins = <<>>], exps, ns)

NextOrigin(l, exps, ns) == HarvestFrom([l EXCEPT !.origins = Tail(l.origins)], exps, ns)

\* galaxy = self.client.get_galaxy(...) and, if there is expedition debris, the
\* origins of the expeditions to the destination, closest first: the set of
\* origins is listed in some order and sorted(..., key=distance) is stable
HvGalaxy(debrisChoices, engines) ==
    /\ pc = "hv_galaxy"
    /\ \E expedition_debris \in debrisChoices, engine \in engines :
        LET destination == Head(loc.dests)
            expedition_origins ==
                {expeditions[k].data.origin :
                    k \in {j \in DOMAIN expeditions : expeditions[j].data.dest = destination}}
            n == Cardinality(expedition_origins)
            l == [loc EXCEPT !.dests = Tail(loc.dests)]
        IN \E listed \in {s \in [1..n -> expedition_origins] :
                             \A origin \in expedition_origins : \E i \in 1..n : s[i] = origin} :
              GotoX(HarvestFrom(
                  IF expedition_debris = None THEN l
                  ELSE [l EXCEPT !.destination = -destination,
                                 !.debris = expedition_debris,
                                 !.origins =
                                     SortedByKeys(listed,
                                         [i \in 1..n |->
                                             <<engine.debris_distance[listed[i]]>>]).seq,
                                 !.required_pathfinders = 0],
                  expeditions, notes))
    /\ calls' = Append(calls, Call("get_galaxy", TRUE, Head(loc.dests), 0, FALSE))
    /\ UNCHANGED <<passFrame, saved_fleets, rm>>

\* the pathfinders of the fleets already on their way to the debris
RECURSIVE Pathfinders(_)
Pathfinders(fleets) ==
    IF fleets = <<>> THEN 0 ELSE Get0(Head(fleets).ships, "pathfinder") + Pathfinders(Tail(fleets))

\* the body of the origin loop up to `if required_pathfinders <= 0: break`
HvResearch(engines) ==
    /\ pc = "hv_research"
    /\ \E engine \in engines :
        LET miss == CacheMiss(rm.research, FALSE)
            pathfinder_cargo == engine.cargo_capacity
            harvesting_fleets ==
                find_fleets(loc.movement.fleets,
                            [NoCriteria EXCEPT !.dest = {loc.destination}, !.mission = {"harvest"},
                                               !.is_return_flight = "no"])
            required_cargo == SumValues(loc.debris)
            required_pathfinders == (required_cargo + pathfinder_cargo - 1) \div pathfinder_cargo
                                    - Pathfinders(harvesting_fleets)
            l == [loc EXCEPT !.required_pathfinders = required_pathfinders]
        IN /\ rm' = [rm EXCEPT !.research = IF miss THEN Cached(TheResearch) ELSE @]
           /\ calls' = Append(calls, Call("get_research", miss, 0, 0, FALSE))
           /\ GotoX(IF required_pathfinders <= 0
                    THEN HarvestFrom([l EXCEPT !.origins = <<>>], expeditions, notes)
                    ELSE [pc |-> "hv_resources",
                          loc |-> [l EXCEPT !.planet = match_planet(Head(loc.origins),
                                                           rm.overview.value.planets)],
                          exps |-> expeditions, notes |-> notes])
    /\ UNCHANGED <<passFrame, saved_fleets>>

\* resources = self.client.get_resources(origin).amount
HvResources(resourceChoices) ==
    /\ pc = "hv_resources"
    /\ \E amount \in resourceChoices :
          Goto([pc |-> "hv_dispatch",
                loc |-> [loc EXCEPT !.deuterium = Get0(amount, "deuterium")]])
    /\ calls' = Append(calls, Call("get_resources", TRUE, loc.planet, 0, FALSE))
    /\ UNCHANGED <<passFrame, expeditions, saved_fleets, rm, notes>>

\* fleet_dispatch = self.client.get_fleet_dispatch(origin) and the number of
\* pathfinders to send
HvDispatch(dispatchChoices, engines) ==
    /\ pc = "hv_dispatch"
    /\ \E page \in dispatchChoices, engine \in engines :
        LET fleet_dispatch == [dispatch_token |-> NewToken, ships |-> page.ships,
                               free_fleet_slots |-> page.free_fleet_slots,
                               free_expedition_slots |-> page.free_expedition_slots,
                               timestamp |-> clock]
            single_pf_fuel_consumption == get_fuel_consumption(engine, cfg.harvest_speed)
            available_pathfinders == Min({Get0(fleet_dispatch.ships, "pathfinder"),
                                          loc.deuterium \div single_pf_fuel_consumption})
            l == [loc EXCEPT !.fleet_dispatch = fleet_dispatch,
                             !.pathfinder_fleet = Min({loc.required_pathfinders,
                                                       available_pathfinders})]
        IN GotoX(IF available_pathfinders = 0 THEN NextOrigin(l, expeditions, notes)
                 ELSE [pc |-> "hv_send", loc |-> l, exps |-> expeditions, notes |-> notes])
    /\ calls' = Append(calls, Call("get_fleet_dispatch", TRUE, loc.planet, NewToken, FALSE))
    /\ UNCHANGED <<passFrame, saved_fleets, rm>>

\* success = self.client.send_fleet(origin=origin, ..., mission=Mission.harvest, ...)
HvSend ==
    /\ pc = "hv_send"
    /\ \E success \in BOOLEAN :
        /\ calls' = Append(calls, [Call("send_fleet", TRUE, loc.planet,
                                        loc.fleet_dispatch.dispatch_token, FALSE)
                                   EXCEPT !.success = success])
        /\ GotoX(IF success
                 THEN [pc |-> "hv_track",
                       loc |-> [loc EXCEPT !.required_pathfinders = @ - loc.pathfinder_fleet],
                       exps |-> expeditions, notes |-> notes]
                 ELSE NextOrigin(loc, expeditions, notes))
    /\ UNCHANGED <<passFrame, saved_fleets, rm>>

\* movement = resource_manager.get_movement(invalidate_cache=True)
HvTrack(movementChoices) ==
    /\ pc = "hv_track"
    /\ \E fetched \in movementChoices :
        LET miss == MovementMiss(rm.movement, NoId, TRUE)
            movement == IF miss THEN MovementPage(fetched) ELSE rm.movement.value
        IN /\ rm' = [rm EXCEPT !.movement = Cached(movement)]
           /\ calls' = Append(calls, Call("get_movement", miss, 0, 0, TRUE))
           /\ GotoX(NextOrigin([loc EXCEPT !.movement = movement], expeditions, notes))
    /\ UNCHANGED <<passFrame, saved_fleets>>

\* ------------------------------------------------------------------ bot: remote failures
\* the remote call the handler is about to make at its position, if any
RemoteCallAt ==
    CASE pc = "overview" -> IF CacheMiss(rm.overview, FALSE) THEN "get_overview" ELSE ""
      [] pc = "events" -> IF CacheMiss(rm.events, FALSE) THEN "get_events" ELSE ""
      [] pc = "fs_research" -> IF CacheMiss(rm.research, FALSE) THEN "get_research" ELSE ""
      [] pc = "fs_resources" -> "get_resources"
      [] pc = "fs_dispatch" -> "get_fleet_dispatch"
      [] pc = "fs_send" -> "send_fleet"
      [] pc = "fs_movement" -> IF MovementMiss(rm.movement, NoId, TRUE) THEN "get_movement" ELSE ""
      [] pc = "dr_movement" -> IF MovementMiss(rm.movement, NoId, FALSE) THEN "get_movement" ELSE ""
      [] pc = "dr_recall" -> "get_movement"
      [] pc = "sf_movement" -> IF MovementMiss(rm.movement, NoId, FALSE) THEN "get_movement" ELSE ""
      [] pc = "sf_recall" -> "get_movement"
      [] pc = "ex_movement" -> IF MovementMiss(rm.movement, NoId, FALSE) THEN "get_movement" ELSE ""
      [] pc = "ex_recall" -> IF MustRecall THEN "get_movement" ELSE ""
      [] pc = "ex_research" -> IF CacheMiss(rm.research, FALSE) THEN "get_research" ELSE ""
      [] pc = "ex_resources" -> "get_resources"
      [] pc = "ex_dispatch" -> "get_fleet_dispatch"
      [] pc = "ex_send" -> "send_fleet"
      [] pc = "ex_track" -> IF MovementMiss(rm.movement, NoId, TRUE) THEN "get_movement" ELSE ""
      [] pc = "hv_galaxy" -> "get_galaxy"
      [] pc = "hv_research" -> IF CacheMiss(rm.research, FALSE) THEN "get_research" ELSE ""
      [] pc = "hv_resources" -> "get_resources"
      [] pc = "hv_dispatch" -> "get_fleet_dispatch"
      [] pc = "hv_send" -> "send_fleet"
      [] pc = "hv_track" -> IF MovementMiss(rm.movement, NoId, TRUE) THEN "get_movement" ELSE ""
      [] OTHER -> ""

\* a remote call raises (timeout, malformed page, ...)
Raise(maxExc) ==
    /\ RemoteCallAt # ""
    /\ exc_count < maxExc
    /\ Except
    /\ calls' = Append(calls,
         [Call(RemoteCallAt, TRUE,
               IF RemoteCallAt \in {"get_resources", "get_fleet_dispatch", "send_fleet"}
               THEN loc.planet ELSE 0,
               IF RemoteCallAt = "send_fleet" THEN loc.fleet_dispatch.dispatch_token ELSE 0,
               pc \in {"fs_movement", "dr_recall", "sf_recall", "ex_recall", "ex_track",
                       "hv_track"})
          EXCEPT !.ok = FALSE])
    /\ UNCHANGED <<clock, cur, issued, cancelled, cfg, periodic_wakeup_id, last_scheduled_fs,
                   last_seen_hostile_events, expeditions, saved_fleets, rm, loc, notes,
                   prev_events>>

\* ------------------------------------------------------------------ retry model
\* OGameBot(...) as start_bot.py builds it, with the bounds above for the times
Config == [sleep_min |-> SleepMin, sleep_max |-> SleepMax,
           min_time_before_attack_to_act |-> MinLead,
           max_time_before_attack_to_act |-> MaxLead,
           try_recalling_saved_fleet |-> FALSE,
           max_return_flight_time |-> SleepMin,
           harvest_expedition_debris |-> TRUE,
           harvest_speed |-> 10]

InitRetry == InitScheduler /\ InitBot(Config)

\* the bot on a quiet account (the event list is always empty) whose remote
\* calls may fail at any time
NextRetry ==
    \/ BotTick({}, RetryMaxTime)
    \/ Start
    \/ LoopPop
    \/ LoopReinsert
    \/ DoWorkIgnore
    \/ DoWorkBegin
    \/ StepOverview({Planets})
    \/ StepEvents({<<>>})
    \/ Raise(MaxExc)
    \/ Return

SpecRetry == InitRetry /\ [][NextRetry]_vars

\* the run loop never stops polling (`while True: event = self._pop()`), time
\* passes, and a handler that was called goes on to its end
SpecRetryFair ==
    /\ SpecRetry
    /\ WF_vars(NextRetry)
    /\ SF_vars(LoopPop)
    /\ SF_vars(BotTick({}, RetryMaxTime))

\* ------------------------------------------------------------------ lifecycle model
\* the bot on a quiet account is started and stopped between the handlers of
\* the run loop; wakes that are still queued reach a stopped bot
NextLife ==
    \/ BotTick({}, LifeMaxTime)
    \/ Start
    \/ Stop
    \/ LoopPop
    \/ LoopReinsert
    \/ HandleWorkNotStarted
    \/ DoWorkIgnore
    \/ DoWorkBegin
    \/ StepOverview({Planets})
    \/ StepEvents({<<>>})
    \/ Raise(1)
    \/ Return

SpecLife == InitRetry /\ [][NextLife]_vars

\* ------------------------------------------------------------------ defence model
\* the events page of an account whose two bodies are attacked: H1 and H2 are
\* attacks on body 1 and body 2, H1late is H1 after the attacker slowed it down,
\* FLate and FEarly are own fleets returning to body 1 shortly before H1 arrives, P
\* is an espionage mission of probes only, H1x is a second attack on body 1; the
\* page may list a later attack before an earlier one
DefEventLists ==
    LET H1 == FleetEvent(1, Elsewhere, 1, AttackTime, "attack", FALSE, "fleet")
        H1late == FleetEvent(1, Elsewhere, 1, AttackTime + 4, "attack", FALSE, "fleet")
        H2 == FleetEvent(2, Elsewhere, 2, AttackTime + 2, "attack", FALSE, "fleet")
        FLate == FleetEvent(3, 1, Elsewhere, AttackTime - 2, "transport", TRUE, "fleet")
        FEarly == FleetEvent(4, 1, Elsewhere, AttackTime - MaxLead + 1, "transport", TRUE, "fleet")
        P == FleetEvent(5, Elsewhere, 1, AttackTime, "espionage", FALSE, "probes")
        H1x == FleetEvent(6, Elsewhere, 1, AttackTime + 4, "attack", FALSE, "fleet")
    IN {<<>>, <<H1>>, <<H1, H2>>, <<H1late>>, <<H1, FLate>>, <<H1, H2, FEarly>>, <<P>>,
        <<H2, H1x, H1>>}

\* the resources page of a body: with and without deuterium
ResourceChoices == {[metal |-> 3, crystal |-> 0, deuterium |-> 12], [metal |-> 3]}

\* the fleet dispatch page of a body: a cargo ship and free slots, no ships, no slot
DispatchChoices ==
    {[ships |-> [small_cargo |-> 1, pathfinder |-> 1], free_fleet_slots |-> 1,
      free_expedition_slots |-> 1],
     [ships |-> [small_cargo |-> 0, pathfinder |-> 0], free_fleet_slots |-> 1,
      free_expedition_slots |-> 1],
     [ships |-> [small_cargo |-> 1, pathfinder |-> 1], free_fleet_slots |-> 0,
      free_expedition_slots |-> 0]}

\* what the engine computes for the fleets above: planet and moon are 5 apart,
\* a faster flight is shorter and burns more; a planet and its moon are equally
\* far from a debris field in another place
Engines == {[distance |-> 5, duration |-> [s \in 1..10 |-> 11 - s], fuel |-> [s \in 1..10 |-> s],
             cargo_capacity |-> 5, debris_distance |-> [origin \in Planets |-> 1040]]}

\* FleetMovement(...)
FleetMovement(id, origin, dest, departure_time, arrival_time, mission, return_flight, ships, cargo) ==
    [id |-> id, origin |-> origin, dest |-> dest, departure_time |-> departure_time,
     arrival_time |-> arrival_time, mission |-> mission, return_flight |-> return_flight,
     ships |-> ships, cargo |-> cargo, holding |-> FALSE, holding_time |-> 0]

\* the fleet the save loop has just sent, as the movement page shows it under id
SentFleet(id) ==
    FleetMovement(id, loc.planet, loc.escape_flight.dest, clock,
                  clock + 2 * loc.escape_flight.duration, "deployment", FALSE,
                  loc.fleet_dispatch.ships, loc.cargo)


\* the movement pages the remote may answer with in the defence model: no fleet,
\* or the fleet just sent, shown once or twice
DefMovements ==
    {[fleets |-> fs, free_fleet_slots |-> 1, free_expedition_slots |-> 1] :
        fs \in {<<>>} \cup (IF pc = "fs_movement"
                            THEN {<<SentFleet(6)>>, <<SentFleet(6), SentFleet(7)>>} ELSE {})}

\* the bot on an account under attack; it keeps no record of the fleets it
\* saves (try_recalling_saved_fleet is off) and no own deployment is under way
NextDef ==
    \/ BotTick({}, DefMaxTime)
    \/ Start
    \/ LoopPop
    \/ LoopReinsert
    \/ DoWorkIgnore
    \/ DoWorkBegin
    \/ StepOverview({Planets})
    \/ StepEvents(DefEventLists)
    \/ FsResearch
    \/ FsResources(ResourceChoices)
    \/ FsDispatch(DispatchChoices, Engines)
    \/ FsSend
    \/ FsMovement(DefMovements)
    \/ DrMovement(DefMovements)
    \/ Raise(1)
    \/ Return

SpecDef == InitRetry /\ [][NextDef]_vars

\* ------------------------------------------------------------------ full model
\* the account of start_bot.py: recalls of saved fleets are on, one expedition
\* is configured, and both bodies may come under an attack that is imminent
FullEventLists ==
    LET N1 == FleetEvent(1, Elsewhere, 1, MaxLead, "attack", FALSE, "fleet")
        N2 == FleetEvent(2, Elsewhere, 2, MaxLead, "attack", FALSE, "fleet")
    IN {<<>>, <<N1, N2>>}

\* the movement pages the remote may answer with, by the read that asks for the
\* page: the fleet a save has just sent, an own deployment from body 2 that
\* reaches body 1 when the attack does, a saved fleet the bot keeps a record of
\* (gone, on its way back or under way for too long, and turned back or not by a recall),
\* the expedition fleet; the expedition pass may find no free expedition slot
FullMovements ==
    LET ships == [small_cargo |-> 1, pathfinder |-> 1]
        Deployment(return_flight) ==
            FleetMovement(8, 2, 1, 0, 2 * MaxLead, "deployment", return_flight, ships, <<>>)
        SavedFleet(entry, return_flight, flying) ==
            FleetMovement(entry.id, entry.origin, CHOOSE p \in Planets : p # entry.origin,
                          clock - flying, clock - flying + 2 * MaxLead, "deployment",
                          return_flight, ships, <<>>)
        ExpeditionFleet(return_flight) ==
            FleetMovement(5, 1, Elsewhere, clock, clock + 10, "expedition", return_flight,
                          [small_cargo |-> 1], <<>>)
        fleets ==
            CASE pc = "fs_movement" -> {<<>>, <<SentFleet(6)>>}
              [] pc = "dr_movement" -> {<<>>, <<Deployment(FALSE)>>}
              [] pc = "dr_recall" -> {<<Deployment(TRUE)>>, <<Deployment(FALSE)>>}
              [] pc = "sf_movement" ->
                    {<<>>, <<SavedFleet(loc.sf[loc.i], TRUE, 0)>>}
                       \cup {<<SavedFleet(loc.sf[loc.i], FALSE, flying)>> :
                                flying \in {0, cfg.max_return_flight_time + 1}}
              [] pc = "sf_recall" ->
                    {<<>>} \cup {<<SavedFleet(loc.sf[loc.i], r, 0)>> : r \in BOOLEAN}
              [] pc = "ex_movement" -> {<<>>, <<ExpeditionFleet(FALSE)>>}
              [] pc = "ex_recall" -> {<<>>, <<ExpeditionFleet(TRUE)>>}
              [] pc = "ex_track" -> {<<>>, <<ExpeditionFleet(FALSE)>>}
              [] OTHER -> {<<>>}
    IN {[fleets |-> fs, free_fleet_slots |-> 1, free_expedition_slots |-> 1] : fs \in fleets}
       \cup (IF pc = "ex_movement"
             THEN {[fleets |-> <<>>, free_fleet_slots |-> 1, free_expedition_slots |-> 0]}
             ELSE {})

\* the resources page and the fleet dispatch page of a body
FullResources == {[metal |-> 3, crystal |-> 0, deuterium |-> 12]}
FullDispatches ==
    {[ships |-> [small_cargo |-> n, pathfinder |-> n], free_fleet_slots |-> 1,
      free_expedition_slots |-> 1] : n \in {0, 1}}

\* a client of the bot cancels the expedition (scheduler.push of a CancelExpedition)
PushCancelExpedition ==
    /\ pc = "loop"
    /\ expeditions # <<>>
    /\ \A k \in DOMAIN expeditions : expeditions[k].cancelled = None
    /\ \A k \in DOMAIN event_q : event_q[k].data.type # "CancelExpedition"
    /\ \E return_fleet \in BOOLEAN :
         event_q' = SchedulerPush(event_q,
                        Event(FreshId, clock + 0, 0,
                              CancelExpedition(expeditions[1].data.id, return_fleet), NoPeriod))
    /\ UNCHANGED <<clock, pc, cur, issued, cancelled, botVars, passVars>>

\* start_bot.py: the expeditions of the configuration are pushed, then the bot
\* is started, then the main loop runs. The configured expedition leaves from
\* body 1 without cargo, or from a body that is not the player's, or from body 1
\* with more metal than the body has, with deuterium that the flight needs as
\* fuel, or with more cargo than the ship can carry
InitFull ==
    /\ clock = 0
    /\ pc = "loop"
    /\ cur = NoEvent
    /\ issued = {}
    /\ cancelled = {}
    /\ \E origin \in {1, 3}, cargo \in {<<>>, [metal |-> 4], [deuterium |-> 4], [metal |-> 6]} :
          /\ origin = 1 \/ cargo = <<>>
          /\ event_q = SchedulerPush(
                           SchedulerPush(<<>>,
                               Event(1, 0, 0, SendExpedition(1, origin, Elsewhere,
                                                             [small_cargo |-> 1], cargo, 10, 1,
                                                             FALSE, 1), NoPeriod)),
                           Event(2, 0, 0, WakeUp(NoId), <<SleepMin, SleepMax>>))
    /\ cfg = [Config EXCEPT !.try_recalling_saved_fleet = TRUE]
    /\ periodic_wakeup_id = 2
    /\ exc_count = 0
    /\ last_scheduled_fs = None
    /\ last_seen_hostile_events = <<>>
    /\ expeditions = <<>>
    /\ saved_fleets = <<>>
    /\ rm = None
    /\ loc = None
    /\ notes = <<>>
    /\ calls = <<>>
    /\ result = "none"
    /\ prev_events = [read |-> FALSE, events |-> <<>>, repeated |-> FALSE]

\* the debris of the expedition position in the full model: none, or some metal
DebrisChoices == {None, [metal |-> 6]}

Next ==
    \/ BotTick({}, FullMaxTime)
    \/ PushCancelExpedition
    \/ LoopPop
    \/ LoopReinsert
    \/ HandleExpeditionWork
    \/ DoWorkIgnore
    \/ DoWorkBegin
    \/ StepOverview({Planets})
    \/ StepEvents(FullEventLists)
    \/ FsResearch
    \/ FsResources(FullResources)
    \/ FsDispatch(FullDispatches, Engines)
    \/ FsSend
    \/ FsMovement(FullMovements)
    \/ DrMovement(FullMovements)
    \/ DrRecall(FullMovements)
    \/ SfMovement(FullMovements)
    \/ SfRecall(FullMovements)
    \/ ExMovement(FullMovements)
    \/ ExRecall(FullMovements)
    \/ ExResearch
    \/ ExResources(FullResources)
    \/ ExDispatch(FullDispatches, Engines)
    \/ ExSend
    \/ ExTrack(FullMovements)
    \/ HvGalaxy(DebrisChoices, Engines)
    \/ HvResearch(Engines)
    \/ HvResources(FullResources)
    \/ HvDispatch(FullDispatches, Engines)
    \/ HvSend
    \/ HvTrack(FullMovements)
    \/ Raise(1)
    \/ Return

Spec == InitFull /\ [][Next]_vars

\* ------------------------------------------------------------------ harvest model
\* the debris of the expedition position in the harvest model: none, a load for
\* two pathfinders, a load for three
HarvestDebris == {None, [metal |-> 6], [metal |-> 11, crystal |-> 3]}

\* the deuterium of an origin in the harvest model: fuel for no, one or three pathfinders
HarvestResources == {[deuterium |-> deuterium] : deuterium \in {5, 12, 30}}

\* the fleet dispatch page of an origin in the harvest model: 0..3 pathfinders
HarvestDispatches ==
    {[ships |-> [pathfinder |-> n], free_fleet_slots |-> 1, free_expedition_slots |-> 0] :
        n \in 0..3}

\* the bot with two configured expeditions, one from each body, to the same
\* destination, on a quiet account without a free expedition slot, so that each
\* pass goes on to the debris harvest. OGameBot._engine is fixed when the bot is
\* built: the debris field is 1040 or 1045 away from each body. The movement
\* page lists a harvest fleet of an earlier pass, on its way out or back, and
\* after a send the fleets that were sent; a body has up to three pathfinders
\* and deuterium for none, one or three of them
InitHarvest ==
    /\ clock = 0
    /\ pc = "loop"
    /\ cur = NoEvent
    /\ issued = {}
    /\ cancelled = {}
    /\ event_q =
         SchedulerPush(
             SchedulerPush(
                 SchedulerPush(<<>>,
                     Event(1, 0, 0, SendExpedition(1, 1, Elsewhere, [small_cargo |-> 1], <<>>,
                                                   10, 1, TRUE, 0), NoPeriod)),
                 Event(2, 0, 0, SendExpedition(2, 2, Elsewhere, [small_cargo |-> 1], <<>>,
                                               10, 1, TRUE, 0), NoPeriod)),
             Event(3, 0, 0, WakeUp(NoId), <<SleepMin, SleepMax>>))
    /\ \E engine \in Engines, debris_distance \in [Planets -> {1040, 1045}] :
          cfg = [field \in DOMAIN Config \cup {"engine"} |->
                    IF field = "engine"
                    THEN [engine EXCEPT !.debris_distance = debris_distance]
                    ELSE Config[field]]
    /\ periodic_wakeup_id = 3
    /\ exc_count = 0
    /\ last_scheduled_fs = None
    /\ last_seen_hostile_events = <<>>
    /\ expeditions = <<>>
    /\ saved_fleets = <<>>
    /\ rm = None
    /\ loc = None
    /\ notes = <<>>
    /\ calls = <<>>
    /\ result = "none"
    /\ prev_events = [read |-> FALSE, events |-> <<>>, repeated |-> FALSE]

SpecHarvest ==
    /\ InitHarvest
    /\ [][\/ BotTick({}, FullMaxTime)
          \/ LoopPop
          \/ LoopReinsert
          \/ HandleExpeditionWork
          \/ DoWorkBegin
          \/ StepOverview({Planets})
          \/ StepEvents({<<>>})
          \/ ExMovement({[fleets |-> fleets, free_fleet_slots |-> 1,
                          free_expedition_slots |-> 0] :
                            fleets \in {<<>>}
                               \cup {<<FleetMovement(9, 1, -Elsewhere, clock - 1, clock + 9,
                                                     "harvest", return_flight,
                                                     [pathfinder |-> 1], <<>>)>> :
                                        return_flight \in BOOLEAN}})
          \/ HvGalaxy(HarvestDebris, {cfg.engine})
          \/ HvResearch({cfg.engine})
          \/ HvResources(HarvestResources)
          \/ HvDispatch(HarvestDispatches, {cfg.engine})
          \/ HvSend
          \/ HvTrack({[fleets |-> Append(loc.movement.fleets,
                                      FleetMovement(10 + Len(loc.movement.fleets), loc.planet,
                                                    loc.destination, clock, clock + 10,
                                                    "harvest", FALSE,
                                                    [pathfinder |-> loc.pathfinder_fleet],
                                                    <<>>)),
                       free_fleet_slots |-> 1, free_expedition_slots |-> 0]})
          \/ Return]_vars

\* ------------------------------------------------------------------ save model
\* the event pages of the save model: no event, an attack on body 1, attacks on
\* both bodies
SaveEventLists ==
    {<<>>,
     <<FleetEvent(1, Elsewhere, 1, MaxLead, "attack", FALSE, "fleet")>>,
     <<FleetEvent(1, Elsewhere, 1, MaxLead, "attack", FALSE, "fleet"),
       FleetEvent(2, Elsewhere, 2, MaxLead + 2, "attack", FALSE, "fleet")>>}

\* the engines of the save model: the ships carry cargo, or none at all
SaveEngines == Engines \cup {[engine EXCEPT !.cargo_capacity = 0] : engine \in Engines}

\* the bodies of the account in the save model: both bodies, or body 1 alone
SaveBodies == {Planets, {1}}

\* the movement page of the save model when no deployment of the player is under way
NoMovements == {[fleets |-> <<>>, free_fleet_slots |-> 1, free_expedition_slots |-> 1]}

\* the bot, built with or without recalls of saved fleets, on an account of both
\* bodies or of body 1 alone, under an attack on body 1 that arrives at MaxLead
\* and one on body 2 a little later; the ships carry cargo or none. After a save
\* the movement page
\* lists no fleet, the fleet that was sent (once, twice, or with the zero
\* entries of its cargo left out), or a fleet that differs from it in departure
\* time, destination, mission, ships or cargo; no own deployment is under way
InitSave ==
    /\ InitScheduler
    /\ \E recall \in BOOLEAN : InitBot([Config EXCEPT !.try_recalling_saved_fleet = recall])

SpecSave ==
    /\ InitSave
    /\ [][\/ BotTick({}, FullMaxTime)
          \/ Start
          \/ LoopPop
          \/ LoopReinsert
          \/ DoWorkIgnore
          \/ DoWorkBegin
          \/ StepOverview(SaveBodies)
          \/ StepEvents(SaveEventLists)
          \/ FsResearch
          \/ FsResources(ResourceChoices)
          \/ FsDispatch(DispatchChoices, SaveEngines)
          \/ FsSend
          \/ FsMovement({[fleets |-> fleets, free_fleet_slots |-> 1,
                          free_expedition_slots |-> 1] :
                            fleets \in
                               {<<>>, <<SentFleet(6)>>, <<SentFleet(6), SentFleet(7)>>,
                                <<[SentFleet(6) EXCEPT !.cargo = remove_empty_values(@)]>>,
                                <<[SentFleet(6) EXCEPT !.departure_time = @ - 1]>>,
                                <<[SentFleet(6) EXCEPT !.departure_time = @ + 1]>>,
                                <<[SentFleet(6) EXCEPT !.dest = Elsewhere]>>,
                                <<[SentFleet(6) EXCEPT !.mission = "transport"]>>,
                                <<[SentFleet(6) EXCEPT !.ships = [small_cargo |-> 2]]>>,
                                <<[SentFleet(6) EXCEPT !.cargo = [metal |-> 1]]>>,
                                <<[SentFleet(6) EXCEPT !.origin = Elsewhere], SentFleet(7)>>}})
          \/ DrMovement(NoMovements)
          \/ SfMovement(FullMovements)
          \/ SfRecall(FullMovements)
          \/ Raise(1)
          \/ Return]_vars

\* ------------------------------------------------------------------ snapshot model
\* _handle_hostile_events up to its first loop in two steps, in the order of the
\* code: StepEventsRead reads the events, keeps a copy of the snapshot of the
\* pass before (`last_seen_hostile_events = dict(self._last_seen_hostile_events)`)
\* and overwrites the snapshot; StepEventsNotify tells the listeners what
\* changed against the copy and replaces the defensive wake
StepEventsRead(eventLists) ==
    /\ pc = "events"
    /\ \E fetched \in eventLists :
        LET miss == CacheMiss(rm.events, FALSE)
            events == IF miss THEN fetched ELSE rm.events.value
            hostile_events == DictById(find_hostile_events(events, rm.overview.value.planets))
        IN /\ rm' = [rm EXCEPT !.events = Cached(events)]
           /\ calls' = calls \o <<Call("get_overview", CacheMiss(rm.overview, FALSE), 0, 0, FALSE),
                                  Call("get_events", miss, 0, 0, FALSE)>>
           /\ last_seen_hostile_events' = NextSnapshot(last_seen_hostile_events, hostile_events)
           /\ prev_events' = [read |-> TRUE, events |-> events,
                               repeated |-> prev_events.read /\ prev_events.events = events]
           /\ loc' = [field \in DOMAIN loc \cup {"last_seen"} |->
                         CASE field = "last_seen" -> last_seen_hostile_events
                           [] field = "hostile_events" -> hostile_events
                           [] field = "current_time" -> clock
                           [] OTHER -> loc[field]]
    /\ pc' = "notify"
    /\ UNCHANGED <<event_q, clock, cur, issued, cancelled, cfg, periodic_wakeup_id, exc_count,
                   last_scheduled_fs, expeditions, saved_fleets, notes, result>>

StepEventsNotify ==
    /\ pc = "notify"
    /\ LET events == rm.events.value
           planets == rm.overview.value.planets
           hostile_events == loc.hostile_events
           current_time == loc.current_time
           max_lead == cfg.max_time_before_attack_to_act
           min_lead == cfg.min_time_before_attack_to_act
           cancelled_q ==
               IF last_scheduled_fs # None /\ loc.wakeup.id # last_scheduled_fs[2]
               THEN SchedulerCancel(event_q, last_scheduled_fs[1])
               ELSE event_q
           l == [loc EXCEPT !.imminent = Imminent(hostile_events, current_time, max_lead)]
       IN /\ notes' = notes \o RecalledNotes(loc.last_seen, hostile_events, planets, current_time)
                            \o CurrentNotes(events, loc.last_seen, hostile_events, planets)
          /\ \E lead \in [DOMAIN hostile_events -> min_lead..max_lead] :
               LET wakeup_times ==
                       {WakeupTime(hostile_events[i], events, planets, current_time,
                                   max_lead, lead[i]) : i \in DOMAIN hostile_events}
                   earliest_wakeup_time == EarliestWakeupTime(wakeup_times, current_time)
               IN IF earliest_wakeup_time # 0
                  THEN /\ event_q' = SchedulerPush(cancelled_q,
                                        Event(FreshId, earliest_wakeup_time, 0,
                                              WakeUp(FreshWakeupId), NoPeriod))
                       /\ last_scheduled_fs' = <<FreshId, FreshWakeupId>>
                  ELSE /\ event_q' = cancelled_q
                       /\ last_scheduled_fs' = None
          /\ Goto(EnterSaveLoop(l, saved_fleets, expeditions))
    /\ UNCHANGED <<clock, cur, issued, cancelled, cfg, periodic_wakeup_id, expeditions,
                   saved_fleets, rm, calls, last_seen_hostile_events, prev_events>>

\* the events page of the snapshot model: no event, an attack on body 1 (H1), the
\* same attack slowed down (H1late), attacks on both bodies, probes only; the
\* attacks are further away than the model runs
SnapshotEventLists ==
    LET far == AttackTime + MaxLead
        H1 == FleetEvent(1, Elsewhere, 1, far, "attack", FALSE, "fleet")
        H1late == FleetEvent(1, Elsewhere, 1, far + 4, "attack", FALSE, "fleet")
        H2 == FleetEvent(2, Elsewhere, 2, far + 2, "attack", FALSE, "fleet")
        P == FleetEvent(5, Elsewhere, 1, far, "espionage", FALSE, "probes")
    IN {<<>>, <<H1>>, <<H1late>>, <<H1, H2>>, <<P>>}

\* the bot under attacks that are still far away, so that a pass ends after the
\* notifications; its remote calls may fail
SpecSnapshot ==
    /\ InitRetry
    /\ [][\/ BotTick({}, DefMaxTime)
          \/ Start
          \/ LoopPop
          \/ LoopReinsert
          \/ DoWorkIgnore
          \/ DoWorkBegin
          \/ StepOverview({Planets})
          \/ StepEventsRead(SnapshotEventLists)
          \/ StepEventsNotify
          \/ Raise(MaxExc)
          \/ Return]_vars

\* ------------------------------------------------------------------ recall model
\* the events page of the recall model: N1 and N2 are attacks on body 1 and body
\* 2 that are imminent, N1x is a second, later attack on body 1, H2 is an attack
\* on body 2 that is still far away
RecallEventLists ==
    LET N1 == FleetEvent(1, Elsewhere, 1, MaxLead, "attack", FALSE, "fleet")
        N2 == FleetEvent(2, Elsewhere, 2, MaxLead + 1, "attack", FALSE, "fleet")
        N1x == FleetEvent(3, Elsewhere, 1, MaxLead + 12, "attack", FALSE, "fleet")
        H2 == FleetEvent(4, Elsewhere, 2, AttackTime, "attack", FALSE, "fleet")
    IN {<<>>, <<N1>>, <<N1, N2>>, <<N1, N1x>>, <<N1, H2>>}

\* the fleet dispatch page of the recall model: no ship is on the ground
GroundedDispatches ==
    {[ships |-> [small_cargo |-> 0, pathfinder |-> 0], free_fleet_slots |-> 1,
      free_expedition_slots |-> 1]}

\* the movement pages of the recall model. Read for an attacked body: no fleet;
\* one deployment from the other body that reaches it 11 or 10 seconds before
\* the attack, with it, 10, 11 or 12 seconds after it; such a fleet on its way
\* back, or on a transport mission; two deployments; a deployment to the other
\* body. Read after a recall: the page as before with the recalled fleet turned,
\* not turned or gone
RecallMovements ==
    LET Deployment(id, dest, arrival, return_flight) ==
            FleetMovement(id, CHOOSE p \in Planets : p # dest, dest, 0, 2 * arrival,
                          "deployment", return_flight, [small_cargo |-> 1], <<>>)
        body == SaveEvent(loc).dest
        hostile_arrival == SaveEvent(loc).arrival_time
        target == Head(loc.targets)
        shown == rm.movement.value.fleets
        fleets ==
            CASE pc = "dr_movement" ->
                    {<<>>,
                     <<Deployment(8, body, hostile_arrival, TRUE)>>,
                     <<[Deployment(8, body, hostile_arrival, FALSE) EXCEPT !.mission = "transport"]>>,
                     <<Deployment(8, body, hostile_arrival, FALSE),
                       Deployment(9, body, hostile_arrival + 1, FALSE)>>,
                     <<Deployment(8, CHOOSE p \in Planets : p # body, AttackTime, FALSE)>>}
                    \cup {<<Deployment(8, body, hostile_arrival + d, FALSE)>> :
                             d \in {-11, -10, 0, 10, 11, 12}}
              [] pc = "dr_recall" ->
                    {[i \in DOMAIN shown |->
                         IF shown[i].id = target.id
                         THEN [shown[i] EXCEPT !.return_flight = return_flight]
                         ELSE shown[i]] : return_flight \in BOOLEAN}
                    \cup {SelectSeq(shown, LAMBDA fleet : fleet.id # target.id)}
              [] OTHER -> {<<>>}
    IN {[fleets |-> fs, free_fleet_slots |-> 1, free_expedition_slots |-> 1] : fs \in fleets}

\* the bot, with no ship on the ground, under attacks while own deployments are
\* under way; its remote calls may fail
SpecRecall ==
    /\ InitRetry
    /\ [][\/ BotTick({}, FullMaxTime)
          \/ Start
          \/ LoopPop
          \/ LoopReinsert
          \/ DoWorkIgnore
          \/ DoWorkBegin
          \/ StepOverview({Planets})
          \/ StepEvents(RecallEventLists)
          \/ FsResearch
          \/ FsResources({[metal |-> 3]})
          \/ FsDispatch(GroundedDispatches, Engines)
          \/ DrMovement(RecallMovements)
          \/ DrRecall(RecallMovements)
          \/ Raise(1)
          \/ Return]_vars

\* ------------------------------------------------------------------ reattachment model
\* start_bot.py with two configured expeditions from body 1 to the same
\* position, repeated forever: both with one small cargo, or the second with
\* one pathfinder; no debris harvest
InitReattach ==
    /\ clock = 0
    /\ pc = "loop"
    /\ cur = NoEvent
    /\ issued = {}
    /\ cancelled = {}
    /\ \E ship \in {"small_cargo", "pathfinder"} :
         event_q =
           SchedulerPush(
               SchedulerPush(
                   SchedulerPush(<<>>,
                       Event(1, 0, 0, SendExpedition(1, 1, Elsewhere, [small_cargo |-> 1], <<>>,
                                                     10, 1, TRUE, 0), NoPeriod)),
                   Event(2, 0, 0, SendExpedition(2, 1, Elsewhere, [s \in {ship} |-> 1], <<>>,
                                                 10, 1, TRUE, 0), NoPeriod)),
               Event(3, 0, 0, WakeUp(NoId), <<SleepMin, SleepMax>>))
    /\ cfg = [Config EXCEPT !.harvest_expedition_debris = FALSE]
    /\ periodic_wakeup_id = 3
    /\ exc_count = 0
    /\ last_scheduled_fs = None
    /\ last_seen_hostile_events = <<>>
    /\ expeditions = <<>>
    /\ saved_fleets = <<>>
    /\ rm = None
    /\ loc = None
    /\ notes = <<>>
    /\ calls = <<>>
    /\ result = "none"
    /\ prev_events = [read |-> FALSE, events |-> <<>>, repeated |-> FALSE]

\* the fleets of the player under way in the reattachment model: two
\* expeditions of one small cargo from body 1 (5 and 6), one of a pathfinder
\* (7), a transport (8) and an expedition from body 2 (9), all to the position
\* of the configured expeditions
ReattachFleets ==
    [id \in 5..9 |->
        FleetMovement(id, IF id = 9 THEN 2 ELSE 1, Elsewhere, 0, 4 * FullMaxTime,
                      IF id = 8 THEN "transport" ELSE "expedition", FALSE,
                      IF id = 7 THEN [pathfinder |-> 1] ELSE [small_cargo |-> 1], <<>>)]

\* the fleet lists of the movement pages read at the start of the expedition part
ReattachFleetLists ==
    {<<>>, <<ReattachFleets[5]>>, <<ReattachFleets[6]>>, <<ReattachFleets[5], ReattachFleets[6]>>,
     <<ReattachFleets[6], ReattachFleets[5]>>, <<ReattachFleets[5], ReattachFleets[7]>>,
     <<ReattachFleets[8]>>, <<ReattachFleets[9]>>}

\* the dispatch page of body 1 in the reattachment model
ReattachDispatches ==
    {[ships |-> [small_cargo |-> 1, pathfinder |-> 1], free_fleet_slots |-> 1,
      free_expedition_slots |-> 1]}

\* the movement pages of the reattachment model: at the start of the expedition
\* part any of the fleet lists, with or without a free expedition slot; after a
\* send the page read before, with or without the fleet that was sent
ReattachMovements ==
    LET expedition == ExpeditionOf(expeditions, loc.expedition)
        sent == FleetMovement(expedition.data.id, loc.planet, expedition.data.dest, clock,
                              clock + 10, "expedition", FALSE, expedition.data.ships, <<>>)
    IN IF pc = "ex_track"
       THEN {[fleets |-> fleets, free_fleet_slots |-> 1, free_expedition_slots |-> 1] :
                fleets \in {loc.movement.fleets, Append(loc.movement.fleets, sent)}}
       ELSE {[fleets |-> fleets, free_fleet_slots |-> 1, free_expedition_slots |-> slots] :
                fleets \in ReattachFleetLists, slots \in {0, 1}}

SpecReattach ==
    /\ InitReattach
    /\ [][\/ BotTick({}, FullMaxTime)
          \/ LoopPop
          \/ LoopReinsert
          \/ HandleExpeditionWork
          \/ DoWorkBegin
          \/ StepOverview({Planets})
          \/ StepEvents({<<>>})
          \/ ExMovement(ReattachMovements)
          \/ ExResearch
          \/ ExResources(FullResources)
          \/ ExDispatch(ReattachDispatches, Engines)
          \/ ExSend
          \/ ExTrack(ReattachMovements)
          \/ Return]_vars

\* ------------------------------------------------------------------ dispatch model
\* start_bot.py with two configured expeditions of one small cargo to the same
\* position: the first leaves from body 1 and is repeated twice, the second is
\* repeated forever and leaves from body 1, from body 2 or from a body that is
\* not the player's; no debris harvest
InitDispatch ==
    /\ clock = 0
    /\ pc = "loop"
    /\ cur = NoEvent
    /\ issued = {}
    /\ cancelled = {}
    /\ \E origin \in {1, 2, 3} :
         event_q =
           SchedulerPush(
               SchedulerPush(
                   SchedulerPush(<<>>,
                       Event(1, 0, 0, SendExpedition(1, 1, Elsewhere, [small_cargo |-> 1], <<>>,
                                                     10, 1, FALSE, 2), NoPeriod)),
                   Event(2, 0, 0, SendExpedition(2, origin, Elsewhere, [small_cargo |-> 1], <<>>,
                                                 10, 1, TRUE, 0), NoPeriod)),
               Event(3, 0, 0, WakeUp(NoId), <<SleepMin, SleepMax>>))
    /\ cfg = [Config EXCEPT !.harvest_expedition_debris = FALSE]
    /\ periodic_wakeup_id = 3
    /\ exc_count = 0
    /\ last_scheduled_fs = None
    /\ last_seen_hostile_events = <<>>
    /\ expeditions = <<>>
    /\ saved_fleets = <<>>
    /\ rm = None
    /\ loc = None
    /\ notes = <<>>
    /\ calls = <<>>
    /\ result = "none"
    /\ prev_events = [read |-> FALSE, events |-> <<>>, repeated |-> FALSE]

\* the event lists of the dispatch model: nothing, or an attack on body 2 that
\* arrives after the end of the run and is not yet to be acted on
DispatchEventLists ==
    {<<>>, <<FleetEvent(1, Elsewhere, 2, AttackTime + MaxLead, "attack", FALSE, "fleet")>>}

\* fleets of the player that no expedition of the bot has sent: an expedition
\* of one small cargo from body 1 (6) and a transport (8)
DispatchStrayFleets ==
    [id \in {6, 8} |->
        FleetMovement(id, 1, Elsewhere, 0, 4 * DefMaxTime,
                      IF id = 8 THEN "transport" ELSE "expedition", FALSE,
                      [small_cargo |-> 1], <<>>)]

\* what the movement pages show as <<free fleet slots, free expedition slots>>
DispatchSlots == {<<1, 1>>, <<0, 1>>, <<1, 0>>}

\* the movement pages of the dispatch model. At the start of the expedition
\* part: the fleets of the running expeditions or none of them, followed by
\* no other fleet or by one of the stray fleets. After a send: the page read
\* before with the fleet that was sent listed once, twice or not at all
DispatchMovements ==
    LET FleetOf(expedition, id, departure_time) ==
            FleetMovement(id, expedition.data.origin, expedition.data.dest, departure_time,
                          departure_time + 4 * DefMaxTime, "expedition", FALSE,
                          expedition.data.ships, <<>>)
        flying == SelectSeq(expeditions, running)
        claimed == [k \in DOMAIN flying |-> FleetOf(flying[k], flying[k].fleet_id, 0)]
        sent(n) == FleetOf(ExpeditionOf(expeditions, loc.expedition),
                           10 * n + loc.expedition, clock)
        fleets ==
            IF pc = "ex_track"
            THEN {loc.movement.fleets, Append(loc.movement.fleets, sent(1)),
                  loc.movement.fleets \o <<sent(1), sent(2)>>}
            ELSE {first \o other : first \in {<<>>, claimed},
                                   other \in {<<>>, <<DispatchStrayFleets[6]>>,
                                              <<DispatchStrayFleets[8]>>}}
    IN {[fleets |-> fs, free_fleet_slots |-> slots[1], free_expedition_slots |-> slots[2]] :
           fs \in fleets, slots \in DispatchSlots}

SpecDispatch ==
    /\ InitDispatch
    /\ [][\/ BotTick({}, DefMaxTime)
          \/ LoopPop
          \/ LoopReinsert
          \/ HandleExpeditionWork
          \/ DoWorkBegin
          \/ StepOverview({Planets})
          \/ StepEvents(DispatchEventLists)
          \/ ExMovement(DispatchMovements)
          \/ ExResearch
          \/ ExResources(FullResources)
          \/ ExDispatch(ReattachDispatches, Engines)
          \/ ExSend
          \/ ExTrack(DispatchMovements)
          \/ Return]_vars

\* ------------------------------------------------------------------ verification model
\* the movement pages of the verification model: those of the dispatch model,
\* but a page read at the start of the expedition part lists the fleet of every
\* running intent and shows both kinds of slot free, so an intent that is
\* running stays so and nothing but the missing fleet id makes the loop send
VerifyMovements ==
    {movement \in DispatchMovements :
        \/ pc = "ex_track"
        \/ /\ movement.free_fleet_slots = 1
           /\ movement.free_expedition_slots = 1
           /\ \A k \in DOMAIN expeditions :
                 running(expeditions[k])
                    => find_fleet_by_id(movement.fleets, expeditions[k].fleet_id) # None}

\* the dispatch model on an account that is not attacked and whose fleets stay
\* under way
SpecVerify ==
    /\ InitDispatch
    /\ [][\/ BotTick({}, DefMaxTime)
          \/ LoopPop
          \/ LoopReinsert
          \/ HandleExpeditionWork
          \/ DoWorkBegin
          \/ StepOverview({Planets})
          \/ StepEvents({<<>>})
          \/ ExMovement(VerifyMovements)
          \/ ExResearch
          \/ ExResources(FullResources)
          \/ ExDispatch(ReattachDispatches, Engines)
          \/ ExSend
          \/ ExTrack(VerifyMovements)
          \/ Return]_vars

\* ------------------------------------------------------------------ command model
\* the times at which the clients of the bot hand their commands to the
\* scheduler, command by command: all of them right after the start, all of
\* them after the second periodic wake, or the first one early and the others late
CommandTimes == {<<1, 1, 1, 1, 1>>, <<18, 18, 18, 18, 18>>, <<1, 18, 18, 18, 18>>}

\* the commands of the clients, in the order they are pushed: an expedition from
\* body 1, its cancellation, a second SendExpedition with the same id and other
\* data, an expedition with a new id from a body that is not the player's, and
\* the cancellation of an id the bot has never seen
Commands ==
    <<SendExpedition(1, 1, Elsewhere, [small_cargo |-> 1], <<>>, 10, 1, FALSE, 2),
      CancelExpedition(1, FALSE),
      SendExpedition(1, 3, Elsewhere, [pathfinder |-> 1], <<>>, 10, 1, TRUE, 0),
      SendExpedition(2, 3, Elsewhere, [small_cargo |-> 1], <<>>, 10, 1, FALSE, 1),
      CancelExpedition(7, FALSE)>>

\* scheduler.push(command) for the commands from the k-th on, the j-th at time at[j]
RECURSIVE PushCommands(_, _, _)
PushCommands(q, at, k) ==
    IF k > Len(Commands) THEN q
    ELSE PushCommands(SchedulerPush(q, Event(k + 1, at[k], 0, Commands[k], NoPeriod)), at, k + 1)

\* the bot has been started and the commands are on their way
InitCommands ==
    /\ clock = 0
    /\ pc = "loop"
    /\ cur = NoEvent
    /\ issued = {}
    /\ cancelled = {}
    /\ \E at \in CommandTimes :
         event_q = PushCommands(SchedulerPush(<<>>, Event(1, 0, 0, WakeUp(NoId),
                                                          <<SleepMin, SleepMax>>)), at, 1)
    /\ cfg = [Config EXCEPT !.harvest_expedition_debris = FALSE]
    /\ periodic_wakeup_id = 1
    /\ exc_count = 0
    /\ last_scheduled_fs = None
    /\ last_seen_hostile_events = <<>>
    /\ expeditions = <<>>
    /\ saved_fleets = <<>>
    /\ rm = None
    /\ loc = None
    /\ notes = <<>>
    /\ calls = <<>>
    /\ result = "none"
    /\ prev_events = [read |-> FALSE, events |-> <<>>, repeated |-> FALSE]

\* the movement page of the command model: an expedition fleet from body 1 is
\* under way, and both kinds of slot are free
CommandMovements ==
    {[fleets |-> <<DispatchStrayFleets[6]>>, free_fleet_slots |-> 1, free_expedition_slots |-> 1]}

\* the bot is started and stopped while commands and wakes arrive and remote
\* calls fail
SpecCommands ==
    /\ InitCommands
    /\ [][\/ BotTick({}, LifeMaxTime)
          \/ Start
          \/ Stop
          \/ LoopPop
          \/ LoopReinsert
          \/ HandleWorkNotStarted
          \/ HandleExpeditionWork
          \/ DoWorkIgnore
          \/ DoWorkBegin
          \/ StepOverview({Planets})
          \/ StepEvents({<<>>})
          \/ ExMovement(CommandMovements)
          \/ Raise(1)
          \/ Return]_vars

\* ------------------------------------------------------------------ function model
\* the pure functions of bot.py, called once on an input of a bounded set:
\* get_cargo on the resources of a body (a resource may be missing from the
\* page) and a free capacity; the ranking on the escape flights from body 1 to
\* its moon (5 apart) or to two planets of its system that are equally far
\* (1005, the positions before and after its own), at a fixed time and with a
\* fixed list of hostile events
InitPure ==
    /\ pc = "call"
    /\ LET kinds == {"deuterium", "crystal", "metal"}
           near == [distance |-> 5, duration |-> [s \in 1..10 |-> 11 - s],
                    fuel |-> [s \in 1..10 |-> s], cargo_capacity |-> 5]
           far == [distance |-> 1005, duration |-> [s \in 1..10 |-> 31 - s],
                   fuel |-> [s \in 1..10 |-> 3 + s], cargo_capacity |-> 5]
           attack(dest) == FleetEvent(1, Elsewhere, dest, MaxLead + 5, "attack", FALSE, "fleet")
       IN \/ \E held \in SUBSET kinds, free_cargo_capacity \in 0..MaxCargo :
               \E resources \in [held -> 0..MaxAmount] :
                  loc = [fn |-> "get_cargo", resources |-> resources,
                         free_cargo_capacity |-> free_cargo_capacity]
          \/ \E route \in {<<near, <<1, 2>>>>, <<near, <<1>>>>, <<far, <<1, 3>>>>,
                            <<far, <<1, 3, 4>>>>, <<far, <<4, 1, 3>>>>},
                hostile_events \in {<<>>, <<attack(2)>>, <<attack(3)>>, <<attack(2), attack(4)>>},
                current_time \in 0..MaxAmount :
               loc = [fn |-> "sort_escape_flights_by_safety", engine |-> route[1], origin |-> 1,
                      destinations |-> route[2], hostile_events |-> hostile_events,
                      current_time |-> current_time]
    /\ clock = 0
    /\ event_q = <<>>
    /\ cur = NoEvent
    /\ issued = {}
    /\ cancelled = {}
    /\ cfg = Config
    /\ periodic_wakeup_id = NoId
    /\ exc_count = 0
    /\ last_scheduled_fs = None
    /\ last_seen_hostile_events = <<>>
    /\ expeditions = <<>>
    /\ saved_fleets = <<>>
    /\ rm = None
    /\ notes = <<>>
    /\ calls = <<>>
    /\ result = "none"
    /\ prev_events = None

\* the call of the function on the input, and the second ranking of the same
\* flights (notes keeps the first answer)
NextPure ==
    /\ \/ /\ pc = "call"
          /\ loc.fn = "get_cargo"
          /\ result' = get_cargo(loc.resources, loc.free_cargo_capacity)
          /\ pc' = "packed"
          /\ notes' = notes
       \/ /\ pc \in {"call", "ranked"}
          /\ loc.fn = "sort_escape_flights_by_safety"
          /\ result' = sort_escape_flights_by_safety(
                           get_escape_flights(loc.engine, loc.origin, loc.destinations),
                           loc.hostile_events, cfg.max_time_before_attack_to_act,
                           loc.current_time)
          /\ pc' = IF pc = "call" THEN "ranked" ELSE "ranked again"
          /\ notes' = IF pc = "call" THEN notes ELSE result
    /\ UNCHANGED <<event_q, clock, cur, issued, cancelled, botVars, rm, loc, calls, prev_events>>

SpecPure == InitPure /\ [][NextPure]_vars

\* ------------------------------------------------------------------ claims: scheduler
\* The step of the run loop that takes an entry out of the queue to pass it to
\* consume.
PopStep == pc = "loop" /\ pc' # "loop"

\* C3: once cancel(handle) has returned, the run loop never again takes the
\* entry with that handle out of the queue to pass it to consume (one-shot and
\* periodic entries, cancel called from any thread at any point of the loop).
C3_CancelledNeverFires ==
    [][PopStep => cur'.id \notin cancelled]_vars

NonSentinelWhileRetrying ==
    /\ pc = "consume"
    /\ cur.data.type = "WakeUp"
    /\ started
    /\ exc_count > 0
    /\ cur.data.id # retry_event_id

\* the step that ends a pass of the decision loop with the given result
PassEnds(how) == pc # "return" /\ pc' = "return" /\ result' = how

\* C1: whenever the error counter is > 0, a wake whose id is not the retry
\* sentinel is dropped by the decision loop (no WakeUp notification, no remote
\* call, no change to bot state, no new scheduler entry); when a sentinel wake
\* completes its pass without exception the error counter is 0 afterwards.
C1_RetryCoalescing ==
    [][/\ NonSentinelWhileRetrying =>
            /\ pc' = "return"
            /\ notes' = <<>>
            /\ calls' = <<>>
            /\ event_q' = event_q
            /\ UNCHANGED botVars
       /\ (PassEnds("ok") /\ cur.data.id = retry_event_id) => exc_count' = 0]_vars

\* C1 witness: a periodic wake has just been dropped while two failures are
\* counted and the retry wake is still queued.
C1_Witness ==
    /\ pc = "return"
    /\ result = "dropped"
    /\ cur.id = periodic_wakeup_id
    /\ exc_count >= 2
    /\ retry_event_id \in WakeIds(event_q)

\* C2: the k-th consecutive failing pass (k >= 1) pushes exactly one wake
\* carrying the sentinel id with delay 5, 10, 15, 30 s for k = 1..4 and 60 s
\* for every k >= 5, increments the error counter by exactly one and re-raises.
C2_RetryBackoff ==
    [][PassEnds("raised") =>
        LET k == exc_count + 1
            delay == CASE k = 1 -> 5 [] k = 2 -> 10 [] k = 3 -> 15 [] k = 4 -> 30 [] OTHER -> 60
            pushed == {i \in DOMAIN event_q' : event_q'[i].id \notin QueuedIds}
        IN /\ exc_count' = k
           /\ Len(event_q') = Len(event_q) + 1
           /\ Cardinality(pushed) = 1
           /\ \A i \in pushed :
                /\ event_q'[i].data = WakeUp(retry_event_id)
                /\ event_q'[i].time = clock + delay
                /\ event_q'[i].period = NoPeriod
           /\ \A j \in DOMAIN event_q : \E i \in DOMAIN event_q' : event_q'[i] = event_q[j]]_vars

\* C2 witness: the sixth consecutive failure has just been counted and its
\* retry wake is queued 60 s ahead.
C2_Witness ==
    /\ pc = "return"
    /\ result = "raised"
    /\ exc_count = 6
    /\ \E i \in DOMAIN event_q :
          event_q[i].data = WakeUp(retry_event_id) /\ event_q[i].time = clock + 60

\* ------------------------------------------------------------------ claims: defence
\* a defensive wake: a one-shot wake that is neither a periodic wake nor the
\* retry wake
DefensiveWake(e) ==
    /\ e.data.type = "WakeUp"
    /\ e.period = NoPeriod
    /\ e.data.id \notin {NoId, retry_event_id}

DefensiveWakes == {i \in DOMAIN event_q : DefensiveWake(event_q[i])}

\* the running pass has read the events and taken the time (loc.current_time)
EventsRead == loc # None /\ rm.events # None /\ rm.events # Stale

\* C5: every defensive wake pushed by the defensive pass has an absolute time
\* strictly greater than the clock value the pass read (now); a candidate time
\* <= now is never scheduled.
C5_WakeStrictlyAfterNow ==
    [][\A i \in DOMAIN event_q' :
          (event_q'[i].id \notin QueuedIds /\ DefensiveWake(event_q'[i]))
              => /\ loc'.current_time = clock
                 /\ event_q'[i].time > loc'.current_time]_vars

\* C5 witness: the pass has just scheduled a defensive wake although one of
\* the hostile events it read yields a candidate time that is not after now.
C5_Witness ==
    /\ pc = "fs_research"
    /\ loc.i = 1
    /\ last_scheduled_fs # None
    /\ \E i \in DefensiveWakes : event_q[i].id = last_scheduled_fs[1]
    /\ \E i \in DOMAIN loc.hostile_events :
          WakeupTime(loc.hostile_events[i], rm.events.value, rm.overview.value.planets, loc.current_time,
                     cfg.max_time_before_attack_to_act, cfg.min_time_before_attack_to_act)
              <= loc.current_time

\* every hostile event the running pass observed has now < arrival - max-lead
DistantAttack ==
    /\ EventsRead
    /\ loc.hostile_events # <<>>
    /\ \A i \in DOMAIN loc.hostile_events :
          loc.current_time
              < loc.hostile_events[i].arrival_time - cfg.max_time_before_attack_to_act

\* C6: if every hostile event observed in a pass has now < arrival - max-lead,
\* the pass issues no defensive send-fleet and leaves exactly one defensive
\* wake pending; its time w lies in [T - max-lead, T - min-lead] for some
\* observed hostile arrival T and w <= T' - min-lead for every observed T'.
C6_DistantAttack ==
    DistantAttack =>
        /\ \A k \in DOMAIN calls : calls[k].op # "send_fleet"
        /\ Cardinality(DefensiveWakes) = 1
        /\ \A i \in DefensiveWakes :
              LET w == event_q[i].time
                  arrivals == {loc.hostile_events[j].arrival_time :
                                  j \in DOMAIN loc.hostile_events}
              IN /\ \E T \in arrivals : /\ T - cfg.max_time_before_attack_to_act <= w
                                        /\ w <= T - cfg.min_time_before_attack_to_act
                 /\ \A T \in arrivals : w <= T - cfg.min_time_before_attack_to_act

\* C6 witness: a pass that saw two distant attacks with different arrivals has
\* ended, after an earlier pass had already scheduled a defensive wake.
C6_Witness ==
    /\ DistantAttack
    /\ pc = "return"
    /\ result = "ok"
    /\ loc.current_time > 0
    /\ Len(loc.hostile_events) = 2
    /\ prev_events.events # <<>>

\* C10: when the defensive pass runs twice in a row with an unchanged event
\* list, the second run emits no HostileEvent, HostileEventRecalled or
\* PlanetsSafe notification.
C10_SecondRunSilent ==
    (EventsRead /\ prev_events.repeated) =>
        \A k \in DOMAIN notes :
            notes[k].type \notin {"NotifyHostileEvent", "NotifyHostileEventRecalled",
                                  "NotifyPlanetsSafe"}

\* C10 witness: the second of two passes that read the same list, with an
\* attack on it, has ended.
C10_Witness ==
    /\ EventsRead
    /\ prev_events.repeated
    /\ pc = "return"
    /\ result = "ok"
    /\ last_seen_hostile_events # <<>>

\* ------------------------------------------------------------------ claims: remote calls
\* The send_fleet calls of the wake so far, the remote calls of one operation,
\* and the last remote call before the i-th call (0 if there is none).
SendIndexes == {i \in DOMAIN calls : calls[i].op = "send_fleet"}
RemoteReads(op) == {i \in DOMAIN calls : calls[i].op = op /\ calls[i].remote}
PrevRemote(i) ==
    LET before == {j \in 1..(i - 1) : calls[j].remote} IN IF before = {} THEN 0 ELSE Max(before)

\* C7: every send_fleet of a wake (defensive save, expedition dispatch, debris
\* harvest) carries the token of a get_fleet_dispatch call for the same origin
\* that is the last remote call before it, and no two send_fleet calls carry
\* the same token.
C7_DispatchTokenFresh ==
    /\ \A i \in SendIndexes :
         LET j == PrevRemote(i)
         IN /\ j # 0
            /\ calls[j].op = "get_fleet_dispatch"
            /\ calls[j].ok
            /\ calls[j].arg = calls[i].arg
            /\ calls[j].token = calls[i].token
    /\ \A i, k \in SendIndexes : i # k => calls[i].token # calls[k].token

\* a wake that has sent three fleets: two saves and a harvest
C7_Witness ==
    /\ Cardinality(SendIndexes) >= 3
    /\ \E i, k \in SendIndexes : calls[i].arg # calls[k].arg
    /\ pc = "hv_track"

\* C8: within a wake overview, events and research are each fetched from the
\* remote at most once and movement is fetched again only with the invalidate
\* flag or a fleet to return; every value the cache answers with was fetched
\* in the same wake, which starts with an empty cache.
C8_CacheDiscipline ==
    /\ \A op \in {"get_overview", "get_events", "get_research"} :
         Cardinality(RemoteReads(op)) <= 1
    /\ \A i, j \in RemoteReads("get_movement") : i < j => calls[j].forced
    /\ \A i \in DOMAIN calls :
         (calls[i].op \in {"get_overview", "get_events", "get_research", "get_movement"}
          /\ ~calls[i].remote)
         => \E j \in 1..(i - 1) : calls[j].op = calls[i].op /\ calls[j].remote /\ calls[j].ok
    /\ (pc = "overview" => rm = NewManager)

\* a wake after the first one in which the cache answered reads of overview,
\* events and research and movement was fetched, then fetched again
C8_Witness ==
    /\ clock > 0
    /\ prev_events.read
    /\ \A op \in {"get_overview", "get_events", "get_research"} :
         \E i \in DOMAIN calls : calls[i].op = op /\ ~calls[i].remote
    /\ \E i, j \in RemoteReads("get_movement") : i < j /\ ~calls[i].forced

\* the first read of movement after the i-th call (0 if there is none)
NextMovementRead(i) ==
    LET after == {j \in (i + 1)..Len(calls) : calls[j].op = "get_movement"}
    IN IF after = {} THEN 0 ELSE Min(after)

\* C9 as stated: after any send_fleet call of a wake the next read of movement
\* in that wake is a remote fetch.
C9_AfterAnySend ==
    \A i \in SendIndexes : NextMovementRead(i) # 0 => calls[NextMovementRead(i)].remote

\* C9: after any send_fleet call of a wake that reports success the next read
\* of movement in that wake is a remote fetch, never the value cached before
\* the send.
C9_AfterSuccessfulSend ==
    \A i \in SendIndexes :
        (calls[i].success /\ NextMovementRead(i) # 0) => calls[NextMovementRead(i)].remote

\* the cache holds a movement page, a fleet is sent with success and the next
\* read of movement goes to the remote
C9_Witness ==
    \E i \in SendIndexes :
        /\ calls[i].ok /\ calls[i].success
        /\ \E h \in RemoteReads("get_movement") : h < i /\ calls[h].ok
        /\ NextMovementRead(i) # 0
        /\ calls[NextMovementRead(i)].remote
        /\ calls[NextMovementRead(i)].ok


\* ------------------------------------------------------------------ claims: expeditions
\* the intents of the table that were created with an integer repeat
Counted == {k \in DOMAIN expeditions : ~expeditions[k].data.forever}

\* C11: an intent created with integer repeat = n is finished without error after
\* exactly n successful send_fleet calls for it, never fewer and never more.
\* repeat is changed only by the decrement after a successful send, so the
\* number of successful sends for an intent is n - repeat: "never more" says
\* that repeat never falls below 0, "never fewer" that an intent finished
\* without error has repeat = 0.
C11_RepeatCounting ==
    /\ \A k \in Counted : expeditions[k].data.repeat >= 0
    /\ \A i \in DOMAIN notes :
         (notes[i].type = "NotifyExpeditionFinished" /\ notes[i].error = "")
            => notes[i].expedition.repeat = 0


\* ------------------------------------------------------------------ claims: saved fleets
\* the positions of _handle_hostile_events, and the step with which it returns
DefensivePcs ==
    {"events", "fs_research", "fs_resources", "fs_dispatch", "fs_send", "fs_movement",
     "dr_movement", "dr_recall", "sf_movement", "sf_recall"}
DefensivePassEnds ==
    /\ pc \in DefensivePcs
    /\ pc' = "ex_movement" \/ (pc' = "return" /\ result' = "ok")

\* origin is the destination of a hostile event of the list the pass has read
AttackedOrigin(hostile_events, origin) ==
    find_fleets(hostile_events, [NoCriteria EXCEPT !.dest = {origin}]) # <<>>

\* the recalls of a saved fleet of origin that the pass tried without success
FailedRecalls(ns, origin) ==
    SelectSeq(ns, LAMBDA n : /\ n.type = "NotifySavedFleetRecalled"
                             /\ n.origin = origin
                             /\ n.error = "Failed to recall fleet.")

\* the fleet of the record the saved-fleet loop is about to recall, as the
\* movement read of the pass shows it
FleetToRecall == find_fleet_by_id(rm.movement.value.fleets, loc.sf[loc.i].id)

\* C12 as stated: at the end of every defensive pass each record of the
\* saved-fleet table has an origin that no current hostile event is bound for,
\* and its fleet was seen flying out for no longer than max_return_flight_time.
C12_NoRecordUnderAttack ==
    [][DefensivePassEnds =>
          \A k \in DOMAIN saved_fleets' :
             /\ ~AttackedOrigin(loc'.hostile_events, saved_fleets'[k].origin)
             /\ FailedRecalls(notes', saved_fleets'[k].origin) # <<>>]_vars

\* C12, amended: at the end of every defensive pass each record of the
\* saved-fleet table either has an origin that a current hostile event is bound
\* for, or refers to a fleet that the pass found flying out for no longer than
\* max_return_flight_time and tried to recall without success. The recall is
\* tried only from the position where the fleet of the record was found in the
\* movement list, outbound and within the time limit, its origin not attacked.
C12_RecordAttackedOrRecallFailed ==
    [][/\ DefensivePassEnds =>
             \A k \in DOMAIN saved_fleets' :
                \/ AttackedOrigin(loc'.hostile_events, saved_fleets'[k].origin)
                \/ FailedRecalls(notes', saved_fleets'[k].origin) # <<>>
       /\ (\E origin \in Planets :
              Len(FailedRecalls(notes', origin)) > Len(FailedRecalls(notes, origin)))
            => pc = "sf_recall"
       /\ pc = "sf_recall" =>
             /\ FleetToRecall # None
             /\ ~FleetToRecall.return_flight
             /\ clock - FleetToRecall.departure_time <= cfg.max_return_flight_time
             /\ ~AttackedOrigin(loc.hostile_events, loc.sf[loc.i].origin)]_vars

\* the defensive pass is over and has left a record whose origin is not under
\* attack: its fleet was within the time limit and the recall failed
C12_Witness ==
    /\ pc = "ex_movement"
    /\ \E k \in DOMAIN saved_fleets :
          /\ ~AttackedOrigin(loc.hostile_events, saved_fleets[k].origin)
          /\ FailedRecalls(notes, saved_fleets[k].origin) # <<>>


\* ------------------------------------------------------------------ claims: run loop
\* consume_event(event.data) has raised: control is in main_loop's except clause
HandlerRaised == pc = "return" /\ result = "raised"

\* an entry of the queue that the clock of the model can reach
Reachable(i) == i \in DOMAIN event_q /\ event_q[i].time <= RetryMaxTime

\* C13: an exception raised by consume(payload) does not terminate the run
\* loop: the raising handler removes no entry from the queue and the loop goes
\* back to polling with the queue as it is; the periodic entry whose handler
\* raised is queued with its next time; and every entry that is queued when the
\* handler raises (the periodic wake, the retry wake) is popped later on.
C13_LoopSurvivesException ==
    /\ [][/\ PassEnds("raised") =>
               /\ \A i \in DOMAIN event_q : \E j \in DOMAIN event_q' : event_q'[j] = event_q[i]
               /\ cur.period # NoPeriod => \E j \in DOMAIN event_q' : event_q'[j] = cur
          /\ HandlerRaised => pc' = "loop" /\ event_q' = event_q]_vars
    /\ (HandlerRaised /\ \E i \in DOMAIN event_q :
            Reachable(i) /\ event_q[i].id = periodic_wakeup_id)
          ~> (pc = "reinsert" /\ cur.id = periodic_wakeup_id)
    /\ (HandlerRaised /\ \E i \in DOMAIN event_q :
            Reachable(i) /\ event_q[i].data = WakeUp(retry_event_id))
          ~> (pc = "consume" /\ cur.data = WakeUp(retry_event_id))

\* C13 witness: the handler of the periodic wake has raised; the periodic wake,
\* put back before the handler was called, and the retry wake are queued.
C13_Witness ==
    /\ HandlerRaised
    /\ cur.id = periodic_wakeup_id
    /\ cur \in {event_q[i] : i \in DOMAIN event_q}
    /\ \E i \in DOMAIN event_q : event_q[i].data = WakeUp(retry_event_id)


\* ------------------------------------------------------------------ claims: ties
\* C14: among due entries with equal time the one with the lower priority value
\* fires first, and entries with equal time and equal priority fire in the
\* order in which they were pushed: when the run loop takes an entry, every
\* entry left in the queue for the same time has a higher priority value, or
\* the same priority value and a later push (the identifiers of the tie model
\* are handed out in the order of the pushes).
C14_TieBreak ==
    [][PopStep =>
          \A i \in DOMAIN event_q' :
             event_q'[i].time = cur'.time =>
                \/ event_q'[i].priority > cur'.priority
                \/ event_q'[i].priority = cur'.priority /\ event_q'[i].id > cur'.id]_vars


\* ------------------------------------------------------------------ claims: lifecycle
\* start() or stop() is called and returns
StartCall == pc = "loop" /\ pc' = "return" /\ result' = "started"
StopCall == pc = "loop" /\ pc' = "return" /\ result' = "stopped"

\* the periodic wake entries of the queue
PeriodicWakes(q) == {i \in DOMAIN q : q[i].period # NoPeriod /\ q[i].data.type = "WakeUp"}

\* C15: start is idempotent: start on a running bot pushes no second periodic
\* wake and emits no second Started; after any sequence of start, stop and wake
\* handling at most one periodic wake entry is queued, and none is queued while
\* the bot is stopped.
C15_StartIdempotent ==
    [][/\ (StartCall /\ started) =>
             /\ event_q' = event_q
             /\ periodic_wakeup_id' = periodic_wakeup_id
             /\ notes' = notes
       /\ Cardinality(PeriodicWakes(event_q')) <= 1
       /\ periodic_wakeup_id' = NoId => PeriodicWakes(event_q') = {}]_vars

\* C15 witness: start has been called on a running bot that counts a failure
\* and returns without a notification, the one periodic wake and the retry
\* wake queued.
C15_Witness ==
    /\ pc = "return"
    /\ result = "started"
    /\ notes = <<>>
    /\ started
    /\ exc_count > 0
    /\ Cardinality(PeriodicWakes(event_q)) = 1
    /\ Len(event_q) = 2

\* a lifecycle notification reaches the listeners in this step
Emitted(notification) ==
    /\ notes' # notes
    /\ \E i \in DOMAIN notes' : notes'[i] = notification

\* C16: Started is emitted exactly when start moves the bot from stopped to
\* running, and Stopped exactly when stop moves it from running to stopped; a
\* call that causes no transition emits neither.
C16_NotificationsFollowTransitions ==
    [][/\ Emitted(NotifyStarted) <=> (StartCall /\ ~started /\ periodic_wakeup_id' # NoId)
       /\ Emitted(NotifyStopped) <=> (StopCall /\ started /\ periodic_wakeup_id' = NoId)]_vars


\* ------------------------------------------------------------------ claims: functions
\* C17: for a free capacity C >= 0 and non-negative amounts (m, c, d) the packed
\* amounts (a missing key counting as 0) are packed-d = min(d, C),
\* packed-c = min(c, C - packed-d), packed-m = min(m, C - packed-d - packed-c),
\* and they add up to min(C, m + c + d).
C17_CargoPacking ==
    pc = "packed" =>
        LET C == loc.free_cargo_capacity
            m == Get0(loc.resources, "metal")
            c == Get0(loc.resources, "crystal")
            d == Get0(loc.resources, "deuterium")
            packed_d == Get0(result, "deuterium")
            packed_c == Get0(result, "crystal")
            packed_m == Get0(result, "metal")
        IN /\ packed_d = Min({d, C})
           /\ packed_c = Min({c, C - packed_d})
           /\ packed_m = Min({m, C - packed_d - packed_c})
           /\ packed_d + packed_c + packed_m = Min({C, m + c + d})
           /\ DOMAIN result \subseteq {"deuterium", "crystal", "metal"}

\* C17 witness: all the deuterium and a part of the crystal fill the capacity;
\* the loop stops before the metal, which has no key in the answer.
C17_Witness ==
    /\ pc = "packed"
    /\ Get0(result, "deuterium") = Get0(loc.resources, "deuterium")
    /\ Get0(result, "deuterium") > 0
    /\ Get0(result, "crystal") > 0
    /\ Get0(result, "crystal") < Get0(loc.resources, "crystal")
    /\ Get0(loc.resources, "metal") > 0
    /\ "metal" \notin DOMAIN result


\* the flights that were ranked, in the order of their enumeration, and the
\* safety key of a flight under the inputs of the ranking
EnumeratedFlights == get_escape_flights(loc.engine, loc.origin, loc.destinations)
SafetyKey(flight) ==
    Safety(flight, loc.hostile_events, cfg.max_time_before_attack_to_act, loc.current_time)
Ranked == pc \in {"ranked", "ranked again"} /\ result # <<>>

\* C18 as stated: the safety key has a unique minimum, i.e. no two distinct
\* flights tie for first place, and ranking the same inputs again yields the
\* same first flight.
C18_UniqueMinimum ==
    /\ Ranked => \A i \in DOMAIN result :
                    i # 1 => KeyLt(SafetyKey(result[1]), SafetyKey(result[i]))
    /\ (Ranked /\ pc = "ranked again") => result[1] = notes[1]

\* C18, amended: the ranking puts a flight with the smallest safety key first
\* (no flight has a smaller key than the first one); of the flights that tie
\* for the smallest key the one enumerated first is ranked first; and ranking
\* the same inputs again yields the same first flight.
C18_FirstIsEarliestMinimum ==
    /\ Ranked =>
         LET flights == EnumeratedFlights
             minimal == {i \in DOMAIN flights :
                            \A j \in DOMAIN flights :
                               ~KeyLt(SafetyKey(flights[j]), SafetyKey(flights[i]))}
         IN /\ Len(result) = Len(flights)
            /\ \A i \in DOMAIN result : ~KeyLt(SafetyKey(result[i]), SafetyKey(result[1]))
            /\ result[1] = flights[Min(minimal)]
    /\ (Ranked /\ pc = "ranked again") => result[1] = notes[1]

\* C18 witness: flights to two planets that are equally far were ranked twice;
\* the cheapest flight to either planet has the smallest key, and the flight to
\* the planet enumerated first is ranked first both times.
C18_Witness ==
    /\ pc = "ranked again"
    /\ result # <<>>
    /\ result[1] = notes[1]
    /\ \E i \in DOMAIN result :
          /\ i # 1
          /\ result[i].dest # result[1].dest
          /\ SafetyKey(result[i]) = SafetyKey(result[1])


\* ------------------------------------------------------------------ claims: intent table
\* the identifiers of the intents that this step takes out of the table, and
\* the notifications it emits
LeavingIntents ==
    {expeditions[k].data.id : k \in DOMAIN expeditions}
        \ {expeditions'[k].data.id : k \in DOMAIN expeditions'}
NewNotes == {notes'[i] : i \in (Len(notes) + 1)..Len(notes')}

\* the step takes the intent out for one of the three reasons of C19: its
\* fleet is no longer in the movement list while repeat == 0, its pending cancel
\* has been processed, or it is invalid (origin not a body of the player, cargo
\* beyond the capacity of the fleet)
LeavesAsClaimed(expedition) ==
    \/ /\ expedition.cancelled = None
       /\ ~expedition.data.forever /\ expedition.data.repeat = 0
       /\ IF running(expedition)
          THEN find_fleet_by_id(loc'.movement.fleets, expedition.fleet_id) = None
          ELSE loc'.movement.fleets = <<>>
       /\ NotifyExpeditionFinished(expedition.data, "") \in NewNotes
    \/ /\ expedition.cancelled # None
       /\ \E fleet_returned \in BOOLEAN :
             NotifyExpeditionCancelled(expedition.data, expedition.cancelled, fleet_returned)
                \in NewNotes
    \/ /\ match_planet(expedition.data.origin, rm.overview.value.planets) = 0
       /\ NotifyExpeditionFinished(expedition.data, "Invalid expedition origin.") \in NewNotes
    \/ /\ \E engine \in Engines : SumValues(expedition.data.cargo) > engine.cargo_capacity
       /\ NotifyExpeditionFinished(expedition.data, "Not enough capacity for the cargo.")
             \in NewNotes

\* the step takes the intent out because send_fleet for it reported failure
LeavesAfterFailedSend(expedition) ==
    /\ pc = "ex_send"
    /\ loc.expedition = expedition.data.id
    /\ calls'[Len(calls')].op = "send_fleet" /\ ~calls'[Len(calls')].success
    /\ NotifyExpeditionFinished(expedition.data, "Failed to send the expedition fleet.")
          \in NewNotes

\* C19 as stated: an intent leaves the table only because its fleet has
\* finished while repeat == 0, because its pending cancel has been processed,
\* or because a validity failure was found.
C19_ThreeWaysOut ==
    [][\A id \in LeavingIntents : LeavesAsClaimed(ExpeditionOf(expeditions, id))]_vars

\* C19, amended: an intent leaves the table only in one of four ways: the
\* three above, or send_fleet for it reported failure. Missing ships,
\* resources, fuel or slots, and an attacked origin, never remove an intent.
C19_FourWaysOut ==
    [][\A id \in LeavingIntents :
          \/ LeavesAsClaimed(ExpeditionOf(expeditions, id))
          \/ LeavesAfterFailedSend(ExpeditionOf(expeditions, id))]_vars

\* C19 witness: the pass has found that the cargo of the intent exceeds the
\* capacity of its fleet and has taken it out of the table.
C19_Witness ==
    /\ expeditions = <<>>
    /\ \E i \in DOMAIN notes :
          /\ notes[i].type = "NotifyExpeditionFinished"
          /\ notes[i].error = "Not enough capacity for the cargo."


\* ------------------------------------------------------------------ claims: cancellation
\* the intents with a pending cancel that the drain of this step has to deal
\* with: all of them when the pass reads the movement, the rest of the finished
\* list when the drain goes on after a recall
CancelsToDrain ==
    {expeditions[k].data.id : k \in {j \in DOMAIN expeditions :
        /\ expeditions[j].cancelled # None
        /\ \/ pc = "ex_movement"
           \/ pc = "ex_recall" /\ \E i \in DOMAIN loc.finished :
                                     loc.finished[i] = expeditions[j].data.id}}

\* the ExpeditionCancelled notifications of this step for the intent
CancelledNotes(id) ==
    SelectSeq(SubSeq(notes', Len(notes) + 1, Len(notes')), LAMBDA note :
        note.type = "NotifyExpeditionCancelled" /\ note.expedition.id = id)

\* this step asks the server to return the fleet
RecallIssued ==
    /\ Len(calls') > Len(calls)
    /\ calls'[Len(calls')].op = "get_movement" /\ calls'[Len(calls')].forced

\* C20: the expedition pass takes every intent with a pending cancel out of the
\* table, running or not, fleet in the movement list or not, and emits exactly
\* one ExpeditionCancelled for it without raising; with return-fleet the recall
\* is issued iff the fleet is neither holding nor returning, and fleet-returned
\* is true only if the refreshed movement shows the fleet returning.
C20_CancellationCompletes ==
    [][/\ \A id \in CancelsToDrain :
            \/ /\ pc' = "ex_recall"
               /\ \E i \in DOMAIN loc'.finished : loc'.finished[i] = id
               /\ CancelledNotes(id) = <<>>
            \/ /\ \A k \in DOMAIN expeditions' : expeditions'[k].data.id # id
               /\ Len(CancelledNotes(id)) = 1
       /\ pc = "ex_recall" =>
            LET expedition == ExpeditionOf(expeditions, Head(loc.finished))
                fleet == find_fleet_by_id(loc'.movement.fleets, expedition.fleet_id)
            IN /\ ~PassEnds("raised")
               /\ RecallIssued <=> MustRecall
               /\ \A i \in DOMAIN CancelledNotes(expedition.data.id) :
                     CancelledNotes(expedition.data.id)[i].fleet_returned
                        => RecallIssued /\ fleet # None /\ fleet.return_flight]_vars


\* ------------------------------------------------------------------ claims: debris harvest
\* the pass is harvesting the debris field loc.destination
Harvesting == loc # None /\ loc.destination # 0

\* the pathfinders of the outbound harvest fleets to the debris field among fleets
InboundPathfinders(fleets) ==
    Pathfinders(SelectSeq(fleets, LAMBDA fleet :
        fleet.mission = "harvest" /\ fleet.dest = loc.destination /\ ~fleet.return_flight))

\* ceil(total debris / capacity of one pathfinder)
NeededPathfinders ==
    LET total == SumValues(loc.debris)
        capacity == cfg.engine.cargo_capacity
    IN CHOOSE n \in 0..total : n * capacity >= total /\ (n = 0 \/ (n - 1) * capacity < total)

\* the fleets that were under way when the pass began, and the pathfinders the
\* pass has sent so far (a fleet that was sent is on the movement page once the
\* page has been read again)
EarlierFleets == SelectSeq(loc.movement.fleets, LAMBDA fleet : fleet.departure_time < clock)
RequiredPathfinders == NeededPathfinders - InboundPathfinders(EarlierFleets)
SentPathfinders ==
    InboundPathfinders(loc.movement.fleets) - InboundPathfinders(EarlierFleets)
        + (IF pc = "hv_track" THEN loc.pathfinder_fleet ELSE 0)

\* the DebrisHarvest notifications of this step
HarvestNotes == {note \in NewNotes : note.type = "NotifyDebrisHarvest"}

C22_OneDefensiveWake ==
    [][/\ Cardinality(DefensiveWakes) <= 1
       /\ Cardinality(DefensiveWakes') <= 1
       /\ (pc = "events" /\ pc' # "return" /\ last_scheduled_fs # None
              /\ loc.wakeup.id # last_scheduled_fs[2])
            => \A i \in DOMAIN event_q' : event_q'[i].id # last_scheduled_fs[1]]_vars

\* C22 witness: the retry of a pass that raised has read the events while a
\* defensive wake of an earlier pass was queued, and one defensive wake is queued.
C22_Witness ==
    /\ pc = "fs_research"
    /\ loc.wakeup.id = retry_event_id
    /\ Cardinality(DefensiveWakes) = 1
    /\ \E i \in DefensiveWakes : event_q[i].id = last_scheduled_fs[1] /\ event_q[i].time > clock
    /\ exc_count > 0


\* ------------------------------------------------------------------ claims: save loop
\* the earliest hostile arrival at the body, of the hostile events the pass has read
EarliestArrival(planet) ==
    Min({loc.hostile_events[i].arrival_time :
            i \in {j \in DOMAIN loc.hostile_events : loc.hostile_events[j].dest = planet}})

\* this step makes the remote call op; its index in calls'
NewCall(op) == Len(calls') = Len(calls) + 1 /\ calls'[Len(calls')].op = op

\* the calls op of the pass so far
CallsOf(op) == {i \in DOMAIN calls : calls[i].op = op}

\* C23: a deployment send-fleet from a body is issued only if the body is
\* attacked and the time the pass read is at or after its earliest hostile
\* arrival less max-lead, at most once per body in a pass; and the save loop
\* takes the bodies in ascending order of their earliest hostile arrival.
C23_SavesInsideWindow ==
    [][/\ NewCall("send_fleet") =>
            LET planet == calls'[Len(calls')].arg
            IN /\ \E i \in DOMAIN loc.hostile_events : loc.hostile_events[i].dest = planet
               /\ loc.current_time
                     >= EarliestArrival(planet) - cfg.max_time_before_attack_to_act
               /\ \A i \in CallsOf("send_fleet") : calls[i].arg # planet
       /\ NewCall("get_resources") =>
            \A i \in CallsOf("get_resources") :
                /\ calls[i].arg # calls'[Len(calls')].arg
                /\ EarliestArrival(calls[i].arg) <= EarliestArrival(calls'[Len(calls')].arg)]_vars

\* C23 witness: the events page lists the attack on body 2 first and two attacks
\* on body 1, the earlier of which arrives before the one on body 2; the pass
\* has sent the fleet of body 1 and then the fleet of body 2.
C23_Witness ==
    /\ loc # None /\ Len(loc.hostile_events) = 3
    /\ EarliestArrival(1) < EarliestArrival(2)
    /\ \E i, j \in CallsOf("send_fleet") : i < j /\ calls[i].arg = 1 /\ calls[j].arg = 2


\* ------------------------------------------------------------------ claims: fleet save
\* the positions of a pass inside the save loop
SaveLoopPcs == {"fs_research", "fs_resources", "fs_dispatch", "fs_send", "fs_movement"}

\* the FleetSaved notifications among ns that name planet as the origin
FleetSavedOf(ns, planet) ==
    SelectSeq(ns, LAMBDA n : n.type = "NotifyFleetSaved" /\ n.origin = planet)

\* the bodies under attack whose time to save has come, as the pass sees them
DueBodies ==
    {planet \in {loc.hostile_events[i].dest : i \in DOMAIN loc.hostile_events} :
        loc.current_time >= EarliestArrival(planet) - cfg.max_time_before_attack_to_act}

\* the reasons for which the save loop gives a body up before sending
GuardErrors ==
    {"No ships on the planet.", "No free fleet slots.", "No escape route.", "Not enough fuel."}

\* fleet, an entry of the movement page the step has read, is the fleet the save
\* loop has sent from the body in hand: it left after the instant `after`
CountsAsSaved(fleet, after) ==
    /\ fleet.origin = loc.planet
    /\ fleet.dest = loc.escape_flight.dest
    /\ fleet.mission = "deployment"
    /\ remove_empty_values(fleet.ships) = remove_empty_values(loc.fleet_dispatch.ships)
    /\ (DOMAIN loc.cargo # {} =>
            remove_empty_values(fleet.cargo) = remove_empty_values(loc.cargo))
    /\ after < fleet.departure_time
    /\ fleet.departure_time <= rm'.movement.value.timestamp

\* the entries of the movement page just read that count as the saved fleet
SavedMatches(after) ==
    {i \in DOMAIN rm'.movement.value.fleets :
        CountsAsSaved(rm'.movement.value.fleets[i], after)}

\* C24: a pass that gets through the save loop has emitted exactly one FleetSaved
\* for every attacked body whose time to save has come and none for another
\* body; send_fleet is reached only with ships, a free fleet slot and an escape
\* route whose fuel the deuterium of the body covers; a FleetSaved with one of
\* the four guard errors comes without a send_fleet for its body; a FleetSaved
\* without error comes only after a successful send_fleet and exactly one match
\* in the movement page read afterwards.
C24_OneFleetSavedPerBody ==
    [][/\ (pc \in SaveLoopPcs /\ pc' = "dr_movement") =>
            \A planet \in Planets :
                Len(FleetSavedOf(notes', planet)) = IF planet \in DueBodies THEN 1 ELSE 0
       /\ pc' = "fs_send" =>
            /\ ships_exist(loc'.fleet_dispatch.ships)
            /\ loc'.fleet_dispatch.free_fleet_slots > 0
            /\ loc'.escape_flight.dest \in rm.overview.value.planets \ {loc.planet}
            /\ loc'.escape_flight.fuel_consumption <= loc.deuterium
       /\ \A n \in NewNotes : n.type = "NotifyFleetSaved" =>
            /\ n.origin = loc.planet
            /\ n.origin \in DueBodies
            /\ FleetSavedOf(notes, n.origin) = <<>>
            /\ n.error \in GuardErrors =>
                 \A i \in DOMAIN calls' : ~(calls'[i].op = "send_fleet" /\ calls'[i].arg = n.origin)
            /\ n.error = "" =>
                 /\ pc = "fs_movement"
                 /\ calls[Max(CallsOf("send_fleet"))].arg = n.origin
                 /\ calls[Max(CallsOf("send_fleet"))].success
                 /\ Cardinality(SavedMatches(loc.fleet_dispatch.timestamp - 1)) = 1]_vars

\* a pass with both bodies under attack has left the save loop: it has saved the
\* fleet of one body and lacked the fuel to save the fleet of the other
C24_Witness ==
    /\ pc = "dr_movement"
    /\ \E n \in {notes[i] : i \in DOMAIN notes} :
          n.type = "NotifyFleetSaved" /\ n.origin = 1 /\ n.error = ""
    /\ \E n \in {notes[i] : i \in DOMAIN notes} :
          n.type = "NotifyFleetSaved" /\ n.origin = 2 /\ n.error = "Not enough fuel."


\* ------------------------------------------------------------------ claims: planets safe
\* the notifications of this step, in order
NewNoteSeq == SubSeq(notes', Len(notes) + 1, Len(notes'))

\* the PlanetsSafe notifications among ns
PlanetsSafeOf(ns) == SelectSeq(ns, LAMBDA n : n.type = "NotifyPlanetsSafe")

\* C25: the step of a defensive pass that reads the events emits PlanetsSafe
\* exactly once when it finds no hostile event while the snapshot of the pass
\* before holds some, whatever else the event list holds, an empty list
\* included; no other step and no other pass emits PlanetsSafe.
C25_PlanetsSafe ==
    [][IF /\ pc = "events"
          /\ ~PassEnds("raised")
          /\ loc'.hostile_events = <<>>
          /\ last_seen_hostile_events # <<>>
       THEN Len(PlanetsSafeOf(NewNoteSeq)) = 1 /\ Len(PlanetsSafeOf(notes')) = 1
       ELSE PlanetsSafeOf(NewNoteSeq) = <<>>]_vars


\* ------------------------------------------------------------------ claims: snapshot
\* the hostile notifications of this step are those the events of the pass call
\* for when they are held against the snapshot previous
NotifiesAgainst(previous) ==
    /\ \A i \in DOMAIN loc.hostile_events :
          LET event == loc.hostile_events[i]
              seen == {j \in DOMAIN previous : previous[j].id = event.id}
          IN (\A j \in seen : previous[j].arrival_time # event.arrival_time)
                <=> \E n \in NewNotes :
                       /\ n.type = "NotifyHostileEvent"
                       /\ n.planet = match_planet(event.dest, rm.overview.value.planets)
                       /\ n.hostile_arrival = event.arrival_time
    /\ \A j \in DOMAIN previous :
          (/\ \A i \in DOMAIN loc.hostile_events : loc.hostile_events[i].id # previous[j].id
           /\ previous[j].arrival_time > loc.current_time)
             <=> \E n \in NewNotes :
                    /\ n.type = "NotifyHostileEventRecalled"
                    /\ n.hostile_arrival = previous[j].arrival_time

\* the step tells the listeners of a hostile event, new, delayed or recalled
NotifiesHostile ==
    \E n \in NewNotes : n.type \in {"NotifyHostileEvent", "NotifyHostileEventRecalled"}

\* C26 as stated: the snapshot is overwritten with the hostile events of the
\* pass only once the pass has emitted its recalled and new or delayed
\* notifications, and a pass that raises before it has emitted them leaves the
\* snapshot as it was.
C26_SnapshotAfterNotifications ==
    [][/\ last_seen_hostile_events' # last_seen_hostile_events =>
            /\ last_seen_hostile_events' = loc'.hostile_events
            /\ pc' # "notify"
       /\ (PassEnds("raised") /\ pc \in {"overview", "events", "notify"}) =>
            last_seen_hostile_events' = last_seen_hostile_events]_vars

\* C26 as the code has it: the snapshot is overwritten with the hostile events
\* of the pass as soon as the pass has read the events, before it notifies; the
\* notifications that follow are held against the copy taken of the snapshot of
\* the pass before; no other step changes the snapshot, and a pass that raises
\* before it has read the events leaves the snapshot as it was.
C26_SnapshotBeforeNotifications ==
    [][/\ (pc = "events" /\ ~PassEnds("raised")) =>
            /\ last_seen_hostile_events' = loc'.hostile_events
            /\ loc'.last_seen = last_seen_hostile_events
            /\ pc' = "notify"
            /\ notes' = notes
       /\ pc = "notify" => NotifiesAgainst(loc.last_seen)
       /\ pc # "notify" => ~NotifiesHostile
       /\ (pc # "events" \/ PassEnds("raised")) =>
            last_seen_hostile_events' = last_seen_hostile_events]_vars

\* the pass has overwritten an empty snapshot with an attack and has yet to
\* tell the listeners of it
C26_Witness ==
    /\ pc = "notify"
    /\ loc.last_seen = <<>>
    /\ last_seen_hostile_events # <<>>
    /\ \A i \in DOMAIN notes : notes[i].type = "NotifyWakeUp"


\* ------------------------------------------------------------------ claims: save verification
\* the entries of the movement page just read that count as the saved fleet when
\* the cargo has to match whatever the bot loaded and the fleet has to have left
\* after the dispatch page was read
ClaimedMatches ==
    {i \in SavedMatches(loc.fleet_dispatch.timestamp) :
        remove_empty_values(rm'.movement.value.fleets[i].cargo) = remove_empty_values(loc.cargo)}

\* the FleetSaved notification of this step
NewFleetSaved == CHOOSE n \in NewNotes : n.type = "NotifyFleetSaved"

\* the step stores the saved-fleet record of entry i of the movement page
StoresRecordOf(i) ==
    \E k \in DOMAIN saved_fleets' :
        saved_fleets'[k] = [id |-> rm'.movement.value.fleets[i].id, origin |-> loc.planet]

\* C27 as stated: the step that verifies a save counts an entry of the movement
\* page as the saved fleet only if it matches origin, destination, mission,
\* ships and cargo and left after the dispatch page was read and no later than
\* the movement page; it stores a record only for the one entry that counts and
\* only when recalls are configured.
C27_OpenWindow ==
    [][(pc = "fs_movement" /\ ~PassEnds("raised")) =>
          /\ NewFleetSaved.error = "" => Cardinality(ClaimedMatches) >= 1
          /\ NewFleetSaved.error = "Multiple fleets matched." => Cardinality(ClaimedMatches) >= 2
          /\ saved_fleets' # saved_fleets =>
                /\ cfg.try_recalling_saved_fleet
                /\ NewFleetSaved.error = ""
                /\ \E i \in ClaimedMatches : StoresRecordOf(i)]_vars

\* C27 as the code has it: an entry counts if it matches origin, destination,
\* mission and ships, matches the cargo unless the bot loaded none, and left no
\* earlier than the dispatch page was read and no later than the movement page;
\* the save is reported without error exactly when one entry counts, and the
\* record of that entry is stored exactly when recalls are configured too.
C27_ClosedWindow ==
    [][(pc = "fs_movement" /\ ~PassEnds("raised")) =>
          LET matches == SavedMatches(loc.fleet_dispatch.timestamp - 1)
          IN /\ NewFleetSaved.error = "" <=> Cardinality(matches) = 1
             /\ NewFleetSaved.error = "Failed to find the fleet." <=> matches = {}
             /\ NewFleetSaved.error = "Multiple fleets matched." <=> Cardinality(matches) >= 2
             /\ IF Cardinality(matches) = 1 /\ cfg.try_recalling_saved_fleet
                THEN /\ \A i \in matches : StoresRecordOf(i)
                     /\ \A k \in DOMAIN saved_fleets' :
                           \/ \E j \in DOMAIN saved_fleets : saved_fleets[j] = saved_fleets'[k]
                           \/ \E i \in matches : saved_fleets'[k].id = rm'.movement.value.fleets[i].id
                ELSE saved_fleets' = saved_fleets]_vars

\* a save has been verified by a fleet that left in the second in which the
\* dispatch page was read, and its record is stored
C27_Witness ==
    /\ pc = "dr_movement"
    /\ cfg.try_recalling_saved_fleet
    /\ loc.fleet_dispatch # None
    /\ notes[Len(notes)].type = "NotifyFleetSaved"
    /\ notes[Len(notes)].error = ""
    /\ notes[Len(notes)].origin = loc.planet
    /\ Len(rm.movement.value.fleets) = 1
    /\ rm.movement.value.fleets[1].departure_time = loc.fleet_dispatch.timestamp
    /\ \E k \in DOMAIN saved_fleets :
          saved_fleets[k] = [id |-> rm.movement.value.fleets[1].id, origin |-> loc.planet]


\* ------------------------------------------------------------------ claims: saved-fleet recall
\* the record the saved-fleet loop has in hand
SavedEntry == loc.sf[loc.i]

\* the record in hand is in the table ss
Recorded(ss) == \E k \in DOMAIN ss : ss[k].id = SavedEntry.id

\* the saved fleet of the record in hand on the movement page fleets (None: gone)
SavedFleetOn(fleets) == find_fleet_by_id(fleets, SavedEntry.id)

\* the step is done with the record in hand and the pass has not raised
RecordEvaluated ==
    /\ pc \in {"sf_movement", "sf_recall"}
    /\ pc' # "sf_recall"
    /\ ~PassEnds("raised")

\* the recall is decided only for a record whose origin no hostile event of the
\* pass heads for and whose fleet the movement page shows outbound for no longer
\* than max_return_flight_time
RecallOnlyWhenCalledFor ==
    pc' = "sf_recall" =>
        /\ pc = "sf_movement"
        /\ \A i \in DOMAIN loc.hostile_events : loc.hostile_events[i].dest # SavedEntry.origin
        /\ SavedFleetOn(rm'.movement.value.fleets) # None
        /\ ~SavedFleetOn(rm'.movement.value.fleets).return_flight
        /\ clock - SavedFleetOn(rm'.movement.value.fleets).departure_time
              <= cfg.max_return_flight_time

\* C28 as stated: a saved fleet is recalled only under the four conditions, and
\* a record the pass has evaluated is removed from the table whenever its fleet
\* has not just been recalled with success, a recall without effect included.
C28_FailedRecallDropsRecord ==
    [][/\ RecallOnlyWhenCalledFor
       /\ RecordEvaluated => ~Recorded(saved_fleets')]_vars

\* C28 as the code has it: a saved fleet is recalled only under the four
\* conditions; the record is removed when the fleet is gone, on its way back or
\* out for too long, and when the recall has turned the fleet; after a recall
\* without effect the record stays in the table.
C28_FailedRecallKeepsRecord ==
    [][/\ RecallOnlyWhenCalledFor
       /\ (RecordEvaluated /\ pc = "sf_movement") =>
            /\ ~Recorded(saved_fleets')
            /\ \E n \in NewNotes : n.type = "NotifySavedFleetRecalled" /\ n.error # ""
       /\ (RecordEvaluated /\ pc = "sf_recall") =>
            /\ Recorded(saved_fleets')
                  <=> ~SavedFleetOn(rm'.movement.value.fleets).return_flight
            /\ \E n \in NewNotes :
                  /\ n.type = "NotifySavedFleetRecalled"
                  /\ n.error = "Failed to recall fleet." <=> Recorded(saved_fleets')
                  /\ n.error = "" <=> ~Recorded(saved_fleets')
       /\ \A k \in DOMAIN saved_fleets :
            (\A j \in DOMAIN saved_fleets' : saved_fleets'[j].id # saved_fleets[k].id)
               => (pc \in {"sf_movement", "sf_recall"} /\ saved_fleets[k].id = SavedEntry.id)]_vars

\* a recall has had no effect and the record of the fleet is still in the table
C28_Witness ==
    /\ pc \notin {"sf_movement", "sf_recall", "loop", "reinsert", "consume"}
    /\ notes # <<>>
    /\ notes[Len(notes)].type = "NotifySavedFleetRecalled"
    /\ notes[Len(notes)].error = "Failed to recall fleet."
    /\ \E k \in DOMAIN saved_fleets : saved_fleets[k].origin = notes[Len(notes)].origin


\* ------------------------------------------------------------------ claims: deployment recall
\* the positions of a pass inside the loop that recalls deployments
RecallLoopPcs == {"dr_movement", "dr_recall"}

\* when a deployment reaches its destination
DeploymentArrival(fleet) == fleet.departure_time + flight_duration(fleet)

\* fleet is a deployment of the player on its way out
OutboundDeployment(fleet) ==
    /\ fleet.origin \in rm.overview.value.planets
    /\ fleet.mission = "deployment"
    /\ ~fleet.return_flight

\* fleet reaches its destination within 10 seconds of a hostile arrival there
NearAttack(fleet) ==
    \E i \in DOMAIN loc.hostile_events :
        /\ loc.hostile_events[i].dest = fleet.dest
        /\ loc.hostile_events[i].arrival_time - 10 <= DeploymentArrival(fleet)
        /\ DeploymentArrival(fleet) <= loc.hostile_events[i].arrival_time + 10

\* the step sends the recall command for the fleet id and the command goes through
Recalls(id) ==
    /\ NewCall("get_movement")
    /\ calls'[Len(calls')].arg = id
    /\ calls'[Len(calls')].ok

\* the step emits one notification, a FleetRecalled, whose error tells whether
\* the movement page read after the recall shows the fleet id on its way back
OneFleetRecalled(id) ==
    /\ Len(notes') = Len(notes) + 1
    /\ notes'[Len(notes')].type = "NotifyFleetRecalled"
    /\ notes'[Len(notes')].error = ""
          <=> \E i \in DOMAIN rm'.movement.value.fleets :
                 /\ rm'.movement.value.fleets[i].id = id
                 /\ rm'.movement.value.fleets[i].return_flight

ReachesReattachment ==
    /\ pc \in {"ex_movement", "ex_recall"}
    /\ pc' # "ex_recall"
    /\ ~PassEnds("raised")

\* the drain of this step leaves the intent running: it is running, not
\* cancelled, and not (or no longer) on the list of the finished expeditions
RunningBeforeReattachment(expedition) ==
    /\ running(expedition)
    /\ expedition.cancelled = None
    /\ IF pc = "ex_movement"
       THEN find_fleet_by_id(rm'.movement.value.fleets, expedition.fleet_id) # None
       ELSE \A k \in DOMAIN loc.finished : loc.finished[k] # expedition.data.id

\* C30: the reattachment step leaves the fleet id of every intent that is
\* running before it as it is; an intent without a fleet id adopts a fleet only
\* if the fleet is an expedition entry of the movement page that no intent
\* claims and that has the origin, the destination and the ships of the intent.
C30_ReattachmentKeepsRunning ==
    [][ReachesReattachment =>
          \A k \in DOMAIN expeditions, j \in DOMAIN expeditions' :
              expeditions'[j].data.id = expeditions[k].data.id =>
                 IF RunningBeforeReattachment(expeditions[k])
                 THEN expeditions'[j].fleet_id = expeditions[k].fleet_id
                 ELSE running(expeditions'[j]) =>
                         \E i \in DOMAIN rm'.movement.value.fleets :
                             LET fleet == rm'.movement.value.fleets[i]
                             IN /\ fleet.id = expeditions'[j].fleet_id
                                /\ fleet.mission = "expedition"
                                /\ \A m \in DOMAIN expeditions :
                                      RunningBeforeReattachment(expeditions[m])
                                         => expeditions[m].fleet_id # fleet.id
                                /\ fleet.origin = expeditions[k].data.origin
                                /\ fleet.dest = expeditions[k].data.dest
                                /\ fleet.ships = expeditions[k].data.ships]_vars


\* ------------------------------------------------------------------ claims: expedition dispatch
\* the steps after which the dispatch loop goes on with the next intent
DispatchLoopPcs == {"ex_dispatch", "ex_send", "ex_track"}

\* the event list of the wake holds a hostile event for the body
UnderAttack(planet) ==
    \E i \in DOMAIN rm.events.value :
        /\ rm.events.value[i].dest = planet
        /\ rm.events.value[i].mission \in {"attack", "acs_attack", "destroy", "espionage"}
        /\ rm.events.value[i].ships # "probes"

\* the movement page shows no free fleet slot or no free expedition slot
NoFreeSlot(movement) == movement.free_fleet_slots = 0 \/ movement.free_expedition_slots = 0

\* the intent waits for a send from a body of the player
Waiting(expedition) == ~running(expedition) /\ expedition.data.origin \in rm.overview.value.planets

\* the intents the dispatch loop has still to look at when the step begins
ToLookAt == LET rest == Tail(loc.todo) IN [k \in DOMAIN rest |-> ExpeditionOf(expeditions, rest[k])]

\* the intent is in the table after the step, payload, repeat counter, fleet id
\* and cancel as before
Stays(expedition) == \E k \in DOMAIN expeditions' : expeditions'[k] = expedition

\* C31: the bot sends no expedition from a body that a hostile event of the
\* wake's event list is heading to, nor while the movement page it has read
\* last shows no free fleet slot or no free expedition slot; the intent the
\* loop holds back this way stays in the table as it is, and without a free
\* slot the loop ends there: the intents behind it are not looked at.
C31_NoSendWhenAttackedOrFull ==
    [][/\ (pc = "ex_send" /\ NewCall("send_fleet")) =>
              ~UnderAttack(loc.planet) /\ ~NoFreeSlot(loc.movement)
       /\ pc' = "ex_research" => ~UnderAttack(loc'.planet) /\ ~NoFreeSlot(loc'.movement)
       /\ pc \in DispatchLoopPcs =>
            /\ \A k \in DOMAIN ToLookAt :
                  (Waiting(ToLookAt[k])
                      /\ (UnderAttack(ToLookAt[k].data.origin) \/ NoFreeSlot(loc'.movement)))
                     => Stays(ToLookAt[k])
            /\ \A k \in DOMAIN ToLookAt :
                  (Waiting(ToLookAt[k]) /\ NoFreeSlot(loc'.movement)
                      /\ ~UnderAttack(ToLookAt[k].data.origin)
                      /\ \A j \in 1..(k - 1) : ToLookAt[j].data.origin \in rm.overview.value.planets)
                     => /\ \A j \in k..Len(ToLookAt) : Stays(ToLookAt[j])
                        /\ NewNotes = {}
                        /\ pc' \notin {"ex_research", "ex_resources", "ex_dispatch", "ex_send", "ex_track"}
       /\ pc = "ex_movement" /\ ~PassEnds("raised") =>
            /\ \A k \in DOMAIN expeditions :
                  (Waiting(expeditions[k]) /\ expeditions[k].cancelled = None
                      /\ rm'.movement.value.fleets # <<>>
                      /\ (UnderAttack(expeditions[k].data.origin) \/ NoFreeSlot(rm'.movement.value)))
                     => \E j \in DOMAIN expeditions' : expeditions'[j].data = expeditions[k].data
            /\ \A k, j \in DOMAIN expeditions :
                  (/\ k < j
                   /\ NoFreeSlot(rm'.movement.value)
                   /\ rm'.movement.value.fleets # <<>>
                   /\ expeditions[j].cancelled = None
                   /\ ~UnderAttack(expeditions[k].data.origin)
                   /\ \E m \in DOMAIN expeditions' :
                         /\ expeditions'[m].data.id = expeditions[k].data.id
                         /\ Waiting(expeditions'[m]))
                     => \E m \in DOMAIN expeditions' : expeditions'[m].data = expeditions[j].data]_vars

\* a pass has sent the expedition of body 1 and has held back the one of body
\* 2, which is under attack
C31_Witness ==
    /\ pc = "return"
    /\ \E i \in DOMAIN calls : calls[i].op = "send_fleet" /\ calls[i].arg = 1
    /\ \A i \in DOMAIN calls : calls[i].op = "send_fleet" => calls[i].arg # 2
    /\ UnderAttack(2)
    /\ \E k \in DOMAIN expeditions : expeditions[k].data.origin = 2 /\ ~running(expeditions[k])


\* ------------------------------------------------------------------ claims: expedition verification
\* the intent the dispatch loop has in hand
InHand == ExpeditionOf(expeditions, loc.expedition)

\* the entries of the movement page read after the send that count as the fleet
\* of the intent in hand
MatchingSent ==
    {i \in DOMAIN rm'.movement.value.fleets :
        LET fleet == rm'.movement.value.fleets[i]
        IN /\ fleet.mission = "expedition"
           /\ \A k \in DOMAIN expeditions : fleet.id # expeditions[k].fleet_id
           /\ fleet.origin = loc.planet
           /\ fleet.dest = InHand.data.dest
           /\ fleet.ships = InHand.data.ships
           /\ fleet.cargo = loc.cargo
           /\ loc.fleet_dispatch.timestamp <= fleet.departure_time
           /\ fleet.departure_time <= rm'.movement.value.timestamp}

\* the intent with two repeats is running
FirstRunning == \E k \in DOMAIN expeditions : expeditions[k].data.id = 1 /\ running(expeditions[k])

\* the intent with two repeats has been sent at most once
FirstSentOnce == \A k \in DOMAIN expeditions : expeditions[k].data.id = 1 => expeditions[k].data.repeat >= 1

\* C32 as stated: a send whose fleet the movement read does not single out is
\* not retried and only reattachment can make the intent running; so an intent
\* without a fleet id has been sent at most once: on an account where the fleet
\* of a running intent stays under way, the intent with two repeats is running
\* or has a counter of at least 1.
C32_SendNeverRetried == FirstRunning \/ FirstSentOnce

\* C32 as the code has it: when the movement read after a successful send shows
\* no fleet or more than one fleet that matches, the intent stays in the table
\* without a fleet id and as it was after the send; the dispatch loop of that
\* pass does not come back to it, so it is not sent again before the next pass;
\* until then nothing gives it a fleet id (in the next pass the reattachment
\* may, and the dispatch loop sends it again when it does not).
C32_NotRetriedInPass ==
    [][/\ pc = "ex_track" =>
            /\ Cardinality(MatchingSent) # 1 => Stays(InHand)
            /\ Cardinality(MatchingSent) = 1 =>
                  \E i \in MatchingSent :
                      Stays([InHand EXCEPT !.fleet_id = rm'.movement.value.fleets[i].id])
       /\ (pc \in DispatchLoopPcs /\ pc' = "ex_research") =>
            /\ \A k \in DOMAIN loc'.todo : loc'.todo[k] # loc.expedition
            /\ \E n \in 1..Len(loc.todo) : loc'.todo = SubSeq(loc.todo, n + 1, Len(loc.todo))
       /\ (pc = "ex_send" /\ NewCall("send_fleet")) => loc.expedition = Head(loc.todo)
       /\ \A k \in DOMAIN expeditions, j \in DOMAIN expeditions' :
            (expeditions'[j].data.id = expeditions[k].data.id
                /\ expeditions'[j].fleet_id # expeditions[k].fleet_id)
               => pc \in {"ex_movement", "ex_recall", "ex_track"}]_vars

\* a pass has sent the expedition of the first intent, has read a movement page
\* that lists the fleet twice and has ended with the intent not running
C32_Witness ==
    /\ pc = "return"
    /\ \E i \in DOMAIN calls : calls[i].op = "send_fleet" /\ calls[i].success
    /\ loc.expedition = 1
    /\ \E i, j \in DOMAIN rm.movement.value.fleets :
          /\ rm.movement.value.fleets[i].id = 11
          /\ rm.movement.value.fleets[j].id = 21
    /\ \E k \in DOMAIN expeditions : expeditions[k].data.id = 1 /\ ~running(expeditions[k])


\* ------------------------------------------------------------------ claims: periodic entries
\* the positions of the run loop at which it holds an entry it has passed or is
\* about to pass to consume, after the re-insertion
Consuming == pc \notin {"loop", "reinsert"} /\ cur # NoEvent

\* the number of entries of queue q that carry the handle event_id
QueuedTimes(q, event_id) == Cardinality({i \in DOMAIN q : q[i].id = event_id})

\* C33: a periodic entry that the run loop pops is queued again exactly once
\* under its handle, payload and period unchanged, for the clock of the pop
\* plus a value of its period, before consume is called; it stays queued
\* whatever consume does, a raise included. A one-shot entry that is popped is
\* not in the queue while it is consumed, and no step puts a handle into the
\* queue other than the push of a new handle and this re-insertion.
C33_PeriodicRequeued ==
    [][/\ (pc = "loop" /\ pc' = "reinsert") =>
            cur'.period # NoPeriod /\ QueuedTimes(event_q', cur'.id) = 0
       /\ (pc = "loop" /\ pc' = "consume") =>
            cur'.period = NoPeriod /\ QueuedTimes(event_q', cur'.id) = 0
       /\ pc = "reinsert" =>
            /\ pc' = "consume"
            /\ Len(event_q') = Len(event_q) + 1
            /\ QueuedTimes(event_q', cur.id) = 1
            /\ \E i \in DOMAIN event_q' :
                  /\ event_q'[i] = [cur EXCEPT !.time = event_q'[i].time]
                  /\ event_q'[i].time - clock \in cur.period[1]..cur.period[2]
                  /\ cur' = event_q'[i]
       /\ Consuming =>
            IF cur.period # NoPeriod
            THEN /\ QueuedTimes(event_q', cur.id) = 1
                 /\ \E i \in DOMAIN event_q' : event_q'[i] = cur
            ELSE QueuedTimes(event_q', cur.id) = 0
       /\ \A i \in DOMAIN event_q' :
            QueuedTimes(event_q, event_q'[i].id) = 0 =>
               \/ pc = "reinsert" /\ event_q'[i].id = cur.id
               \/ event_q'[i].id = FreshId]_vars

\* the handler has raised for the periodic wake, which is queued for its next time
C33_Witness ==
    /\ pc = "return"
    /\ result = "raised"
    /\ cur.period # NoPeriod
    /\ \E i \in DOMAIN event_q : event_q[i] = cur /\ cur.time > clock


\* ------------------------------------------------------------------ claims: retry wake
\* the queued wakes that carry the sentinel id
RetryWakes ==
    {i \in DOMAIN event_q : event_q[i].data.type = "WakeUp" /\ event_q[i].data.id = retry_event_id}

\* C34: whenever the error counter is above 0 and the run loop is between two
\* entries (no handler is executing), exactly one wake with the sentinel id is
\* queued.
C34_RetryWakeQueued == (exc_count > 0 /\ pc = "loop") => Cardinality(RetryWakes) = 1


\* ------------------------------------------------------------------ claims: wake after a hostile event
\* the arrival times of the hostile events the pass has found
HostileArrivals == {loc.hostile_events[i].arrival_time : i \in DOMAIN loc.hostile_events}

\* no entry of the event list the pass has read arrives before the clock
NothingOverdue == \A i \in DOMAIN rm.events.value : rm.events.value[i].arrival_time >= clock

\* C35: a defensive pass that has read an event list with a hostile event in
\* it, no entry of which arrives before the clock, leaves its scheduling step
\* with exactly one defensive wake in the queue, the one it has stored the
\* handle of, due after the clock and no later than one second after the
\* earliest hostile arrival.
C35_HostileEventLeavesWake ==
    [][(pc = "events" /\ ~PassEnds("raised") /\ HostileArrivals' # {} /\ NothingOverdue') =>
          /\ Cardinality(DefensiveWakes') = 1
          /\ \A i \in DefensiveWakes' :
                /\ clock < event_q'[i].time
                /\ event_q'[i].time <= Min(HostileArrivals') + 1
                /\ last_scheduled_fs' = <<event_q'[i].id, event_q'[i].data.id>>]_vars

\* a pass has read an attack that is to be acted on now, with nothing of the
\* player on its way to the body, and the defensive wake is queued for one
\* second after the attack
C35_Witness ==
    /\ pc = "fs_research"
    /\ HostileArrivals # {}
    /\ NothingOverdue
    /\ \E i \in DefensiveWakes : event_q[i].time = Min(HostileArrivals) + 1


\* ------------------------------------------------------------------ claims: wake before the sends
\* the positions of the defensive pass after its scheduling step: the save
\* loop, the recall of deployments and the recall of saved fleets
AfterSchedulingPcs == SaveLoopPcs \cup RecallLoopPcs \cup {"sf_movement", "sf_recall"}

\* the queue entries the handle in _last_scheduled_fs points at
ScheduledWakes ==
    {i \in DOMAIN event_q : last_scheduled_fs # None /\ event_q[i].id = last_scheduled_fs[1]}

\* C36: the defensive wake a pass has computed is in the queue before the pass
\* issues a defensive send-fleet or a recall and stays there through the save
\* and recall parts; when one of their steps raises, that wake is still queued
\* next to the retry wake the failure adds.
C36_WakePushedBeforeSends ==
    [][(pc \in AfterSchedulingPcs /\ last_scheduled_fs # None) =>
          /\ Cardinality(ScheduledWakes) = 1
          /\ \A i \in ScheduledWakes : DefensiveWake(event_q[i]) /\ clock < event_q[i].time
          /\ last_scheduled_fs' = last_scheduled_fs
          /\ \A i \in ScheduledWakes : \E j \in ScheduledWakes' : event_q'[j] = event_q[i]
          /\ PassEnds("raised") =>
                /\ Cardinality(RetryWakes') = Cardinality(RetryWakes) + 1
                /\ Len(event_q') = Len(event_q) + 1]_vars

\* a pass has scheduled its wake and then failed at the send-fleet of a save:
\* the wake and the retry wake are both queued
C36_Witness ==
    /\ pc = "return"
    /\ result = "raised"
    /\ \E i \in CallsOf("send_fleet") : ~calls[i].ok /\ i = Len(calls)
    /\ ScheduledWakes # {}
    /\ RetryWakes # {}


\* ------------------------------------------------------------------ claims: one fleet per intent
\* the fleet ids the running intents of the table exps hold
ClaimedFleets(exps) == {exps[k].fleet_id : k \in {j \in DOMAIN exps : running(exps[j])}}

\* no two intents of the table hold the same fleet id
OneIntentPerFleet ==
    \A j, k \in DOMAIN expeditions :
        (j # k /\ running(expeditions[j]) /\ running(expeditions[k]))
            => expeditions[j].fleet_id # expeditions[k].fleet_id

\* C37: in every state of the expedition pass and after it no two intents of
\* the table hold the same fleet id, and the matching after a send gives an
\* intent only a fleet that no intent held when the movement was read.
C37_NoSharedFleet ==
    [][/\ OneIntentPerFleet'
       /\ pc = "ex_track" =>
            \A k \in DOMAIN expeditions' :
                (running(expeditions'[k]) /\ expeditions'[k].data.id = loc.expedition)
                    => expeditions'[k].fleet_id \notin ClaimedFleets(expeditions)]_vars

\* the pass is over and both intents are running, one of them with a fleet it
\* took over in the reattachment step
C37_Witness ==
    /\ pc = "loop"
    /\ Len(expeditions) = 2
    /\ \A k \in DOMAIN expeditions : running(expeditions[k])
    /\ \E k \in DOMAIN expeditions : expeditions[k].fleet_id = 6


\* ------------------------------------------------------------------ claims: repeat counter
\* C38: the repeat counter of an intent created with an integer repeat = n
\* stays in 0..n, whatever the passes find, passes whose send-fleet succeeded
\* and whose movement read listed no single matching fleet included (the
\* dispatch model creates its counted intent with repeat = 2).
C38_RepeatStaysInRange ==
    \A k \in Counted : expeditions[k].data.repeat >= 0 /\ expeditions[k].data.repeat <= 2


\* ------------------------------------------------------------------ claims: commands
\* handle_work is about to be called with a wake or a command
Delivered(types) == pc = "consume" /\ cur.data.type \in types

\* the table holds an intent with the id of the command in hand
KnownId == \E k \in DOMAIN expeditions : expeditions[k].data.id = cur.data.id

\* C39: while the bot is not started handle_work raises for a wake, a
\* SendExpedition and a CancelExpedition alike: no remote call, no notification,
\* no scheduler entry, and the intent table, the error counter, the hostile
\* snapshot and the saved-fleet table stay as they are.
C39_StoppedBotRejectsWork ==
    [][(Delivered({"WakeUp", "SendExpedition", "CancelExpedition"}) /\ ~started) =>
          /\ pc' = "return"
          /\ result' = "rejected"
          /\ calls' = calls
          /\ notes' = notes
          /\ event_q' = event_q
          /\ UNCHANGED <<expeditions, exc_count, last_seen_hostile_events, saved_fleets,
                         last_scheduled_fs, periodic_wakeup_id>>]_vars

\* the cancellation of an intent of the table has been rejected by the stopped
\* bot while the error counter is above 0: the intent has no pending cancel
C39_Witness ==
    /\ pc = "return"
    /\ result = "rejected"
    /\ cur.data.type = "CancelExpedition"
    /\ exc_count > 0
    /\ \E k \in DOMAIN expeditions :
          expeditions[k].data.id = cur.data.id /\ expeditions[k].cancelled = None

\* C40: on a running bot, whatever the error counter is, a SendExpedition
\* with a new id adds a queued intent with its data at the end of the table, a
\* CancelExpedition with a known id becomes the pending cancel of that intent,
\* a SendExpedition with an id of the table leaves the table as it is (data,
\* fleet id, pending cancel and repeat of the intent included) and so does a
\* CancelExpedition with an unknown id; the error counter is left alone.
C40_CommandsKeepState ==
    [][(Delivered({"SendExpedition", "CancelExpedition"}) /\ started) =>
          /\ pc' = "return"
          /\ result' = "ok"
          /\ exc_count' = exc_count
          /\ (cur.data.type = "SendExpedition" /\ ~KnownId) =>
                expeditions' = Append(expeditions,
                                   [data |-> cur.data, cancelled |-> None, fleet_id |-> NoId])
          /\ (cur.data.type = "CancelExpedition" /\ KnownId) =>
                /\ DOMAIN expeditions' = DOMAIN expeditions
                /\ \A k \in DOMAIN expeditions :
                      expeditions'[k] =
                          IF expeditions[k].data.id = cur.data.id
                          THEN [expeditions[k] EXCEPT !.cancelled = cur.data]
                          ELSE expeditions[k]
          /\ (cur.data.type = "SendExpedition" /\ KnownId) => expeditions' = expeditions
          /\ (cur.data.type = "CancelExpedition" /\ ~KnownId) => expeditions' = expeditions]_vars

\* in retry mode a SendExpedition with the id of a running intent and other
\* data has been handled, and the intent is as it was
C40_Witness ==
    /\ pc = "return"
    /\ result = "ok"
    /\ cur.data.type = "SendExpedition"
    /\ exc_count > 0
    /\ \E k \in DOMAIN expeditions :
          /\ expeditions[k].data.id = cur.data.id
          /\ expeditions[k].data # cur.data
          /\ running(expeditions[k])

====
